---- MODULE Spec2Model ----
(***************************************************************************)
(* A model of the PDF tool: its wrappers (src/src/core), its two windows,  *)
(* the toolbar and the page viewer (src/src/gui).                          *)
(*                                                                         *)
(*   PDFMerger.merge_pdfs   pdf_merger.py      specification SpecMerger    *)
(*   merge_pdfs             pdf_merger.py      specification SpecMerger    *)
(*   PDFAnnotator           pdf_annotator.py   specification SpecAnnotator *)
(*   PDFSigner              pdf_signer.py      specification SpecSigner    *)
(*   PDFToolMainWindow      main_window.py     specification SpecGui       *)
(*   UnifiedPDFEditor       unified_window.py  specification SpecGui       *)
(*   AnnotationToolbar      toolbar.py         specification SpecGui       *)
(*   FullPDFViewer (render) full_pdf_viewer.py specification SpecRender    *)
(*                                                                         *)
(* Each component is a state machine of its own; the variables of the      *)
(* other components keep their initial values under its specification.     *)
(***************************************************************************)
EXTENDS Integers, Sequences, FiniteSets, TLC

VARIABLES
    \* ---- PDFMerger.merge_pdfs (one call) ----
    mpc,            \* position in merge_pdfs: idle, check, loop, save, done
    input_files,    \* the argument input_files
    dest_writable,  \* whether pdf.save(output_path) can write the destination
    file_idx,       \* index of the next element of `for file_path in input_files`
    pdf,            \* pages of the in-memory output document (Pdf.new())
    examined,       \* paths whose file_path.exists() was evaluated, in order
    opened,         \* paths Pdf.open was called on, in order
    dest,           \* content of output_path on disk (NoFile: not there)
    merge_result,   \* Running, Returned, or the exception that left the call
    \* ---- the module-level merge_pdfs (one call) ----
    fpc,            \* position in the function: idle, called, done
    fargs,          \* the arguments the function was given
    fresult,        \* Running, Returned, or the exception that left it
    \* ---- one PDFAnnotator object ----
    scope,          \* none (not constructed), failed (constructor raised),
                    \* plain, with (inside a with block), unwind (an exception
                    \* is leaving the with block), left (the block was left)
    handle,         \* the fitz document self.doc: none, open, closed
    doc,            \* pages of self.doc, each the sequence of what was added
    released,       \* how many times the library released the handle
    close_ran,      \* close() ran at least once (directly or from __exit__)
    saved,          \* what is on disk at each output path (NoFile: nothing)
    last,           \* the most recent call on the object and its arguments
    ann_result,     \* Returned, or the exception that left the last call
    \* ---- PDFSigner (one call of sign_pdf or validate_signature) ----
    spc,            \* position in the call: idle, check, run, done
    sop,            \* the method called: sign_pdf, validate_signature
    sargs,          \* the arguments of the call
    cmd,            \* the argument list built for subprocess.run
    launched,       \* the commands handed to subprocess.run, in order
    proc,           \* what subprocess.run met (NoProc: it was not called)
    sign_result,    \* Running, Returned, or the exception that left the call
    sign_return,    \* the value returned (None: nothing, or not returned)
    \* ---- the window shown ----
    window,         \* none (not launched), main, unified
    gdisk,          \* what is on disk at each path a window writes
    hlast,          \* what the most recent handler did
    \* ---- PDFToolMainWindow ----
    merge_file_list,    \* number of files listed on the merge tab
    annotate_pdf_path,  \* the annotate tab's PDF field holds a path
    sign_pdf_path,      \* the sign tab's PDF field holds a path
    main_cert_path,     \* the sign tab's certificate field holds a path
    \* ---- UnifiedPDFEditor, its toolbar and its viewer ----
    page_list,          \* the entries of the page list, <<source, page>>
    current_pdf_path,   \* source of the selected page (None at first)
    current_page_num,   \* index of the selected page
    annotations,        \* the pending annotations, in insertion order
    temp_click_pos,     \* the last position clicked with the text tool
                        \* (at 0: no such attribute yet)
    add_text_btn,       \* the Add button is enabled
    current_tool,       \* toolbar.current_tool
    text_props_widget,  \* the toolbar's font size and colour controls are shown
    apply_btn,          \* the Apply button is enabled
    cert_path_input,    \* the certificate field holds a path
    viewer_pdf_path,    \* pdf_viewer.pdf_path
    viewer_doc,         \* pdf_viewer.doc: none, open, closed
    viewer_annotations, \* pdf_viewer.annotations, the preview list
    \* ---- FullPDFViewer._render_page (the arithmetic of one render) ----
    scroll_area,        \* <<width, height>> of the scroll area, as last read
    page_rect,          \* <<width, height>> of the page last rendered
    pixmap,             \* self.pixmap: none, fresh (set by the last render),
                        \* stale (the last render raised and left it)
    current_zoom_factor \* the stored zoom factor (None: no such attribute)

mergerVars ==
    <<mpc, input_files, dest_writable, file_idx, pdf, examined, opened, dest,
      merge_result>>

functionVars == <<fpc, fargs, fresult>>

annotatorVars ==
    <<scope, handle, doc, released, close_ran, saved, last, ann_result>>

signerVars ==
    <<spc, sop, sargs, cmd, launched, proc, sign_result, sign_return>>

mainVars ==
    <<merge_file_list, annotate_pdf_path, sign_pdf_path, main_cert_path>>

unifiedVars ==
    <<page_list, current_pdf_path, current_page_num, annotations, temp_click_pos,
      add_text_btn, current_tool, text_props_widget, apply_btn, cert_path_input,
      viewer_pdf_path, viewer_doc, viewer_annotations>>

guiVars == <<window, gdisk, hlast, mainVars, unifiedVars>>

renderVars == <<scroll_area, page_rect, pixmap, current_zoom_factor>>

vars ==
    <<mergerVars, functionVars, annotatorVars, signerVars, guiVars, renderVars>>

\* What an action of one component leaves alone: the other components.
exceptMerger == <<functionVars, annotatorVars, signerVars, guiVars, renderVars>>

exceptFunction == <<annotatorVars, signerVars, guiVars, renderVars>>

exceptAnnotator == <<mergerVars, functionVars, signerVars, guiVars, renderVars>>

exceptSigner == <<mergerVars, functionVars, annotatorVars, guiVars, renderVars>>

exceptGui == <<mergerVars, functionVars, annotatorVars, signerVars, renderVars>>

exceptRender == <<mergerVars, functionVars, annotatorVars, signerVars, guiVars>>

-----------------------------------------------------------------------------
(* Bounds of the model.                                                    *)

\* Longest input_files list tried.
MaxFiles == 3

\* Most pages of a document handed to PDFAnnotator.
MaxPages == 2

\* Most annotations added to one document.
MaxAnnots == 1

-----------------------------------------------------------------------------
(* Values shared by the wrappers.                                          *)

\* What is on disk at a path: nothing, or a PDF with the given pages.
NoFile == [there |-> FALSE, pages |-> <<>>]

File(pages) == [there |-> TRUE, pages |-> pages]
Running == [type |-> "Running", msg |-> <<>>]
Returned == [type |-> "Returned", msg |-> <<>>]

\* An exception: its class and its message, the message as the sequence of
\* the parts an f-string joins ("Failed to open ...: " + str(e) is
\* <<Txt("Failed to open"), ...>> \o e.msg).
Exc(type, msg) == [type |-> type, msg |-> msg]

\* str(e)
Str(e) == e.msg

\* A literal part of a message; a path in a message stands for itself.
Txt(s) == <<s>>

\* The message contains the text `part` (pytest.raises(match=...) is a
\* search), or names the path p.
Says(e, part) == \E i \in 1..Len(e.msg) : e.msg[i] = Txt(part)

Names(e, p) == \E i \in 1..Len(e.msg) : e.msg[i] = p

Max(S) == CHOOSE x \in S : \A y \in S : y <= x

-----------------------------------------------------------------------------
(* The files the merger is tried on.  A path is the sequence of the        *)
(* characters of its name.                                                 *)

Pa == <<"a", ".", "p", "d", "f">>
PB == <<"b", ".", "P", "D", "F">>
Pc == <<"c", ".", "p", "d", "f">>
Pd == <<"d", ".", "p", "d", "f">>
Pe == <<"e", ".", "t", "x", "t">>
Pf == <<"f", ".", "t", "x", "t">>
Pg == <<"g", ".", "P", "d", "f">>
Ph == <<"p", "d", "f">>

Paths == {Pa, PB, Pc, Pd, Pe, Pf, Pg, Ph}

\* What is on disk at each path: whether it exists, what Pdf.open does with
\* it (ok, PdfError: a malformed PDF, OSError: an unreadable file) and how
\* many pages it holds.
Disk ==
    (Pa :> [exists |-> TRUE,  open |-> "ok",       npages |-> 2]) @@
    (PB :> [exists |-> TRUE,  open |-> "ok",       npages |-> 1]) @@
    (Pc :> [exists |-> TRUE,  open |-> "PdfError", npages |-> 0]) @@
    (Pd :> [exists |-> FALSE, open |-> "OSError",  npages |-> 0]) @@
    (Pe :> [exists |-> TRUE,  open |-> "PdfError", npages |-> 0]) @@
    (Pf :> [exists |-> FALSE, open |-> "OSError",  npages |-> 0]) @@
    (Pg :> [exists |-> TRUE,  open |-> "OSError",  npages |-> 0]) @@
    (Ph :> [exists |-> TRUE,  open |-> "ok",       npages |-> 1])

\* src.pages of an opened source: page k of path p is <<p, k>>.
Pages(p) == [k \in 1..Disk[p].npages |-> <<p, k>>]

\* Path.suffix: the name from its last dot on, empty when there is no dot,
\* or the dot is the first or the last character.
Suffix(p) ==
    LET dots == {i \in 1..Len(p) : p[i] = "."}
    IN  IF dots = {} THEN <<>>
        ELSE IF Max(dots) = 1 \/ Max(dots) = Len(p) THEN <<>>
        ELSE SubSeq(p, Max(dots), Len(p))

\* str.lower on one character.
LowerChar(c) ==
    CASE c = "P" -> "p"
      [] c = "D" -> "d"
      [] c = "F" -> "f"
      [] c = "T" -> "t"
      [] c = "X" -> "x"
      [] OTHER   -> c

\* str.lower
Lower(s) == [i \in 1..Len(s) |-> LowerChar(s[i])]

DotPdf == <<".", "p", "d", "f">>

-----------------------------------------------------------------------------
(* PDFMerger.merge_pdfs                                                    *)

\* `not file_path.suffix.lower() == ".pdf"` (case-sensitive variant first).
NotPdfSuffixCaseSensitive(p) == ~(Suffix(p) = DotPdf)

NotPdfSuffix(p) == ~(Lower(Suffix(p)) = DotPdf)

\* The two argument checks ahead of the try block: the exception raised, or
\* Running when both pass (variant accepting a single file first).
CheckCountOffByOne(files) ==
    IF files = <<>> THEN Exc("PDFMergerError", <<Txt("No input files provided")>>)
    ELSE IF Len(files) < 1
         THEN Exc("PDFMergerError",
                  <<Txt("At least 2 PDF files are required for merging")>>)
         ELSE Running

CheckCount(files) ==
    IF files = <<>> THEN Exc("PDFMergerError", <<Txt("No input files provided")>>)
    ELSE IF Len(files) < 2
         THEN Exc("PDFMergerError",
                  <<Txt("At least 2 PDF files are required for merging")>>)
         ELSE Running

\* The handlers of the outer try: what an exception raised inside it leaves
\* merge_pdfs as.  PDFMergerError is not a PdfError, so one raised inside the
\* try is caught by `except Exception` and wrapped again.
OuterExcept(e) ==
    IF e.type = "PdfError"
    THEN Exc("PDFMergerError", <<Txt("PDF processing error")>> \o Str(e))
    ELSE Exc("PDFMergerError", <<Txt("Unexpected error during merge")>> \o Str(e))

\* pdf.pages.extend(src.pages) (variant inserting in front first).
ExtendPrepend(target, pages) == pages \o target

Extend(target, pages) == target \o pages

\* The body of the for loop for one file_path: the exception it raises, or
\* Running when the source was appended; `opens` tells whether Pdf.open was
\* called.  (Variant testing the extension before the existence first, then
\* a variant that skips a source it cannot open.)
LoopBodySuffixFirst(p) ==
    IF NotPdfSuffix(p)
    THEN [raise |-> Exc("PDFMergerError", <<Txt("Not a PDF file"), p>>), opens |-> FALSE]
    ELSE IF ~Disk[p].exists
    THEN [raise |-> Exc("PDFMergerError", <<Txt("File not found"), p>>), opens |-> FALSE]
    ELSE IF Disk[p].open = "PdfError"
    THEN [raise |-> Exc("PDFMergerError",
                        <<Txt("Failed to open"), p>> \o Str(Exc("PdfError", <<Txt("pikepdf")>>))),
          opens |-> TRUE]
    ELSE IF Disk[p].open = "OSError"
    THEN [raise |-> Exc("OSError", <<Txt("cannot read"), p>>), opens |-> TRUE]
    ELSE [raise |-> Running, opens |-> TRUE]

LoopBodySkipUnopenable(p) ==
    IF ~Disk[p].exists
    THEN [raise |-> Exc("PDFMergerError", <<Txt("File not found"), p>>), opens |-> FALSE]
    ELSE IF NotPdfSuffix(p)
    THEN [raise |-> Exc("PDFMergerError", <<Txt("Not a PDF file"), p>>), opens |-> FALSE]
    ELSE [raise |-> Running, opens |-> TRUE]

LoopBody(p) ==
    IF ~Disk[p].exists
    THEN [raise |-> Exc("PDFMergerError", <<Txt("File not found"), p>>), opens |-> FALSE]
    ELSE IF NotPdfSuffix(p)
    THEN [raise |-> Exc("PDFMergerError", <<Txt("Not a PDF file"), p>>), opens |-> FALSE]
    ELSE IF Disk[p].open = "PdfError"
    THEN [raise |-> Exc("PDFMergerError",
                        <<Txt("Failed to open"), p>> \o Str(Exc("PdfError", <<Txt("pikepdf")>>))),
          opens |-> TRUE]
    ELSE IF Disk[p].open = "OSError"
    THEN [raise |-> Exc("OSError", <<Txt("cannot read"), p>>), opens |-> TRUE]
    ELSE [raise |-> Running, opens |-> TRUE]

\* Lists of at most n paths.
Lists(n) == UNION {[1..k -> Paths] : k \in 0..n}

MergerInit ==
    /\ mpc = "idle"
    /\ input_files = <<>>
    /\ dest_writable = TRUE
    /\ file_idx = 1
    /\ pdf = <<>>
    /\ examined = <<>>
    /\ opened = <<>>
    /\ dest = NoFile
    /\ merge_result = Running

\* merge_pdfs(input_files, output_path) is called; nothing is at output_path.
MergeCall ==
    /\ mpc = "idle"
    /\ \E files \in Lists(MaxFiles), w \in BOOLEAN :
          /\ input_files' = files
          /\ dest_writable' = w
    /\ mpc' = "check"
    /\ UNCHANGED <<file_idx, pdf, examined, opened, dest, merge_result>>
    /\ UNCHANGED exceptMerger

\* The argument checks, then `pdf = Pdf.new()`.
MergeCheck ==
    /\ mpc = "check"
    /\ IF CheckCount(input_files) = Running
       THEN /\ mpc' = "loop"
            /\ pdf' = <<>>
            /\ UNCHANGED merge_result
       ELSE /\ mpc' = "done"
            /\ merge_result' = CheckCount(input_files)
            /\ UNCHANGED pdf
    /\ UNCHANGED <<input_files, dest_writable, file_idx, examined, opened, dest>>
    /\ UNCHANGED exceptMerger

\* One iteration of `for file_path in input_files`.
MergeLoop ==
    /\ mpc = "loop"
    /\ file_idx <= Len(input_files)
    /\ LET p == input_files[file_idx]
           r == LoopBody(p)
       IN  /\ examined' = Append(examined, p)
           /\ opened' = IF r.opens THEN Append(opened, p) ELSE opened
           /\ IF r.raise = Running
              THEN /\ pdf' = Extend(pdf, Pages(p))
                   /\ file_idx' = file_idx + 1
                   /\ UNCHANGED <<mpc, merge_result>>
              ELSE /\ mpc' = "done"
                   /\ merge_result' = OuterExcept(r.raise)
                   /\ UNCHANGED <<pdf, file_idx>>
    /\ UNCHANGED <<input_files, dest_writable, dest>>
    /\ UNCHANGED exceptMerger

\* The loop is over: pdf.save(output_path).
MergeSave ==
    /\ mpc = "loop"
    /\ file_idx > Len(input_files)
    /\ mpc' = "done"
    /\ IF dest_writable
       THEN /\ dest' = File(pdf)
            /\ merge_result' = Returned
       ELSE /\ dest' = dest
            /\ merge_result' = OuterExcept(Exc("OSError", <<Txt("cannot write")>>))
    /\ UNCHANGED <<input_files, dest_writable, file_idx, pdf, examined, opened>>
    /\ UNCHANGED exceptMerger

\* The module-level merge_pdfs(input_files, output_path) has no try block:
\* what leaves `merger.merge_pdfs(...)` leaves the function, and a normal
\* return of the method is followed by the function's own return of None.
\* (Variant that swallows the exception first.)
FunctionLeavesSwallowed(result) == Returned

FunctionLeaves(result) == result

NoMergeArgs == [input_files |-> <<>>, dest_writable |-> TRUE]

FunctionInit ==
    /\ fpc = "idle"
    /\ fargs = NoMergeArgs
    /\ fresult = Running

\* The module-level merge_pdfs is called: `merger = PDFMerger()`, then
\* `merger.merge_pdfs(input_files, output_path)` with its own arguments.
merge_pdfs ==
    /\ fpc = "idle"
    /\ mpc = "idle"
    /\ \E files \in Lists(MaxFiles), w \in BOOLEAN :
          /\ fargs' = [input_files |-> files, dest_writable |-> w]
          /\ input_files' = files
          /\ dest_writable' = w
    /\ fpc' = "called"
    /\ mpc' = "check"
    /\ UNCHANGED <<file_idx, pdf, examined, opened, dest, merge_result, fresult>>
    /\ UNCHANGED exceptFunction

\* The method call made by the function is over.
merge_pdfs_return ==
    /\ fpc = "called"
    /\ mpc = "done"
    /\ fpc' = "done"
    /\ fresult' = FunctionLeaves(merge_result)
    /\ UNCHANGED <<mergerVars, fargs>>
    /\ UNCHANGED exceptFunction

MergerNext ==
    \/ MergeCall
    \/ MergeCheck
    \/ MergeLoop
    \/ MergeSave
    \/ merge_pdfs
    \/ merge_pdfs_return

-----------------------------------------------------------------------------
(* PDFAnnotator                                                            *)

\* The seven add_* methods: the text of their except handler and whether
\* library calls (set_colors, set_border, update) follow the primitive that
\* attaches the annotation.
AddMethods ==
    [add_text_annotation |->
        [prefix |-> "Failed to add text annotation", styled |-> FALSE],
     add_highlight |-> [prefix |-> "Failed to add highlight", styled |-> TRUE],
     add_underline |-> [prefix |-> "Failed to add underline", styled |-> TRUE],
     add_strikeout |-> [prefix |-> "Failed to add strikeout", styled |-> TRUE],
     add_rectangle |-> [prefix |-> "Failed to add rectangle", styled |-> TRUE],
     add_circle |-> [prefix |-> "Failed to add circle", styled |-> TRUE],
     add_freehand_text |->
        [prefix |-> "Failed to add freehand text", styled |-> FALSE]]

AddNames == DOMAIN AddMethods

\* Output paths handed to save.
OutPaths == {"out1.pdf", "out2.pdf"}

\* Page numbers handed to the add_* methods.
PageNums == -1..MaxPages

\* What the library does in an add_* call on a valid page: none (no failure),
\* add (the primitive that attaches the annotation raises), style (a call
\* after it raises).
LibOutcomes(m) == IF AddMethods[m].styled THEN {"none", "add", "style"}
                  ELSE {"none", "add"}

NoCall == [op |-> "none", page_num |-> 0, path |-> "", fails |-> FALSE]

\* `except Exception as e: raise PDFAnnotatorError(f"<prefix>: {str(e)}")`
AnnotatorExcept(prefix, e) ==
    Exc("PDFAnnotatorError", <<Txt(prefix)>> \o Str(e))

\* What the library raises for any use of a closed document, len() included.
DocumentClosed == Exc("ValueError", <<Txt("document closed")>>)

\* `page_num < 0 or page_num >= len(self.doc)` (variant without the lower
\* bound first).
BadPageNoLowerBound(page_num, d) == page_num >= Len(d)

BadPage(page_num, d) == page_num < 0 \/ page_num >= Len(d)

\* self.doc[page_num]: the position of the page in d (a negative number
\* counts from the end), 0 when the page is not in the document.
PageAt(page_num, d) ==
    LET i == IF page_num < 0 THEN page_num + Len(d) + 1 ELSE page_num + 1
    IN  IF i \in 1..Len(d) THEN i ELSE 0

\* The primitive that attaches what method m adds to page i of d.
Attach(d, i, m) == [d EXCEPT ![i] = Append(@, m)]

RECURSIVE CountAnnots(_)
CountAnnots(d) ==
    IF d = <<>> THEN 0 ELSE Len(Head(d)) + CountAnnots(Tail(d))

\* The body of add_* method m: the document and the outcome it leaves.
AddBody(m, h, d, page_num, lib) ==
    LET prefix == AddMethods[m].prefix
    IN  IF h # "open"
        THEN [doc |-> d, result |-> AnnotatorExcept(prefix, DocumentClosed)]
        ELSE IF BadPage(page_num, d)
        THEN [doc |-> d,
              result |-> AnnotatorExcept(prefix,
                            Exc("PDFAnnotatorError",
                                <<Txt("Invalid page number"), <<page_num>>>>))]
        ELSE IF PageAt(page_num, d) = 0
        THEN [doc |-> d,
              result |-> AnnotatorExcept(prefix,
                            Exc("IndexError", <<Txt("page not in document")>>))]
        ELSE IF lib = "add"
        THEN [doc |-> d,
              result |-> AnnotatorExcept(prefix,
                            Exc("ValueError", <<Txt("library")>>))]
        ELSE IF lib = "style"
        THEN [doc |-> Attach(d, PageAt(page_num, d), m),
              result |-> AnnotatorExcept(prefix,
                            Exc("ValueError", <<Txt("library")>>))]
        ELSE [doc |-> Attach(d, PageAt(page_num, d), m), result |-> Returned]

\* The body of save: what is on disk, the handle and the outcome it leaves;
\* `fails` is whether self.doc.save raises on an open document.  (Variant
\* that closes the document after writing first.)
SaveBodyCloses(h, d, disk, path, fails) ==
    IF h # "open"
    THEN [saved |-> disk, handle |-> h,
          result |-> AnnotatorExcept("Failed to save PDF", DocumentClosed)]
    ELSE IF fails
    THEN [saved |-> disk, handle |-> h,
          result |-> AnnotatorExcept("Failed to save PDF",
                        Exc("OSError", <<Txt("cannot write")>>))]
    ELSE [saved |-> [disk EXCEPT ![path] = File(d)], handle |-> "closed",
          result |-> Returned]

SaveBody(h, d, disk, path, fails) ==
    IF h # "open"
    THEN [saved |-> disk, handle |-> h,
          result |-> AnnotatorExcept("Failed to save PDF", DocumentClosed)]
    ELSE IF fails
    THEN [saved |-> disk, handle |-> h,
          result |-> AnnotatorExcept("Failed to save PDF",
                        Exc("OSError", <<Txt("cannot write")>>))]
    ELSE [saved |-> [disk EXCEPT ![path] = File(d)], handle |-> h,
          result |-> Returned]

\* `if self.doc:` in close.  A fitz document has __len__ (its page count)
\* and no __bool__, so its truth value is len(self.doc) != 0, and len() of a
\* closed document raises.  The value is "raise", "true" or "false".
DocTruth(h, d) ==
    IF h # "open" THEN "raise"
    ELSE IF Len(d) # 0 THEN "true" ELSE "false"

\* The body of close: the handle, the number of releases and the outcome.
CloseBody(h, d, n) ==
    IF DocTruth(h, d) = "raise"
    THEN [handle |-> h, released |-> n, result |-> DocumentClosed]
    ELSE IF DocTruth(h, d) = "true"
    THEN [handle |-> "closed", released |-> n + 1, result |-> Returned]
    ELSE [handle |-> h, released |-> n, result |-> Returned]

\* Where a call that ended with `result` leaves the caller: an exception
\* raised inside a with block starts leaving the block.
AfterCall(sc, result) ==
    IF sc = "with" /\ result # Returned THEN "unwind" ELSE sc

\* The object can be called: it was constructed and no exception is on its
\* way out of a with block.
Callable == scope \in {"plain", "with", "left"}

AnnotatorInit ==
    /\ scope = "none"
    /\ handle = "none"
    /\ doc = <<>>
    /\ released = 0
    /\ close_ran = FALSE
    /\ saved = [p \in OutPaths |-> NoFile]
    /\ last = NoCall
    /\ ann_result = Returned

\* PDFAnnotator(pdf_path): the file is missing, cannot be opened, or is
\* opened with n pages.
Construct ==
    /\ scope = "none"
    /\ \E exists \in BOOLEAN, opens \in BOOLEAN, n \in 0..MaxPages :
          IF ~exists
          THEN /\ ann_result' =
                     Exc("PDFAnnotatorError", <<Txt("PDF file not found")>>)
               /\ scope' = "failed"
               /\ UNCHANGED <<handle, doc>>
          ELSE IF ~opens
          THEN /\ ann_result' =
                     Exc("PDFAnnotatorError",
                         <<Txt("Failed to open PDF"), Txt("library")>>)
               /\ scope' = "failed"
               /\ UNCHANGED <<handle, doc>>
          ELSE /\ ann_result' = Returned
               /\ scope' = "plain"
               /\ handle' = "open"
               /\ doc' = [k \in 1..n |-> <<>>]
    /\ last' = [NoCall EXCEPT !.op = "__init__"]
    /\ UNCHANGED <<released, close_ran, saved>>
    /\ UNCHANGED exceptAnnotator

\* __enter__: a with block is entered on the object.
Enter ==
    /\ scope = "plain"
    /\ scope' = "with"
    /\ last' = [NoCall EXCEPT !.op = "__enter__"]
    /\ ann_result' = Returned
    /\ UNCHANGED <<handle, doc, released, close_ran, saved>>
    /\ UNCHANGED exceptAnnotator

\* A call of add_* method m.
Add(m) ==
    /\ Callable
    /\ CountAnnots(doc) < MaxAnnots
    /\ \E page_num \in PageNums, lib \in LibOutcomes(m) :
          LET r == AddBody(m, handle, doc, page_num, lib)
          IN  /\ doc' = r.doc
              /\ ann_result' = r.result
              /\ scope' = AfterCall(scope, r.result)
              /\ last' = [NoCall EXCEPT !.op = m, !.page_num = page_num]
    /\ UNCHANGED <<handle, released, close_ran, saved>>
    /\ UNCHANGED exceptAnnotator

add_text_annotation == Add("add_text_annotation")

add_highlight == Add("add_highlight")

add_underline == Add("add_underline")

add_strikeout == Add("add_strikeout")

add_rectangle == Add("add_rectangle")

add_circle == Add("add_circle")

add_freehand_text == Add("add_freehand_text")

\* save(output_path)
save ==
    /\ Callable
    /\ \E path \in OutPaths, fails \in BOOLEAN :
          LET r == SaveBody(handle, doc, saved, path, fails)
          IN  /\ saved' = r.saved
              /\ handle' = r.handle
              /\ ann_result' = r.result
              /\ scope' = AfterCall(scope, r.result)
              /\ last' = [NoCall EXCEPT !.op = "save", !.path = path,
                                        !.fails = fails]
    /\ UNCHANGED <<doc, released, close_ran>>
    /\ UNCHANGED exceptAnnotator

\* close()
close ==
    /\ Callable
    /\ LET r == CloseBody(handle, doc, released)
       IN  /\ handle' = r.handle
           /\ released' = r.released
           /\ ann_result' = r.result
           /\ scope' = AfterCall(scope, r.result)
    /\ close_ran' = TRUE
    /\ last' = [NoCall EXCEPT !.op = "close"]
    /\ UNCHANGED <<doc, saved>>
    /\ UNCHANGED exceptAnnotator

\* __exit__: the with block is left, normally or by an exception; it calls
\* close, whose exception, if any, is the one that leaves the block.
Exit ==
    /\ scope \in {"with", "unwind"}
    /\ LET r == CloseBody(handle, doc, released)
       IN  /\ handle' = r.handle
           /\ released' = r.released
           /\ ann_result' = IF r.result # Returned THEN r.result
                            ELSE ann_result
    /\ scope' = "left"
    /\ close_ran' = TRUE
    /\ last' = [NoCall EXCEPT !.op = "__exit__"]
    /\ UNCHANGED <<doc, saved>>
    /\ UNCHANGED exceptAnnotator

AnnotatorNext ==
    \/ Construct \/ Enter \/ Exit \/ save \/ close
    \/ add_text_annotation \/ add_highlight \/ add_underline
    \/ add_strikeout \/ add_rectangle \/ add_circle \/ add_freehand_text

-----------------------------------------------------------------------------
(* PDFSigner                                                               *)

\* Certificate paths and the output path handed to sign_pdf.
Ck == <<"k", ".", "p", "1", "2">>
CK == <<"K", ".", "P", "1", "2">>
Cm == <<"m", ".", "p", "1", "2">>
Cn == <<"n", ".", "p", "e", "m">>
Cq == <<"p", "1", "2">>
Po == <<"s", ".", "p", "d", "f">>

\* The paths that exist when the signer is called: Path.exists().
SignerFiles == {Pa, Ck, CK, Cn, Cq}

DotP12 == <<".", "p", "1", "2">>

\* Python's None, and the truth value of an optional string (`if reason:`).
None == "None"

Truthy(v) == v # None /\ v # ""

\* The arguments tried.  validate_signature takes the path as input_pdf.
InputPdfs == {Pa, Pd}

CertPaths == {Ck, CK, Cm, Cn, Cq}

Passwords == {"", "pw"}

Reasons == {None, "", "because"}

Locations == {None, "", "here"}

Contacts == {None, "", "me"}

NoArgs ==
    [input_pdf |-> <<>>, cert_path |-> <<>>, cert_password |-> "",
     output_pdf |-> <<>>, reason |-> None, location |-> None,
     contact_info |-> None]

\* What subprocess.run meets: the executable is not on the PATH (absent:
\* FileNotFoundError), it is there but may not be executed (denied:
\* PermissionError), or it runs and exits with a code, having written to its
\* standard output and standard error.
ExitCodes == {0, 1, 2}

Stdouts == {"", "signature ok\n"}

Stderrs == {"", "bad password"}

NoProc == [kind |-> "none", code |-> 0, stdout |-> "", stderr |-> ""]

Procs ==
    {[kind |-> k, code |-> 0, stdout |-> "", stderr |-> ""] :
        k \in {"absent", "denied"}}
    \cup {[kind |-> "exit", code |-> c, stdout |-> o, stderr |-> e] :
            c \in ExitCodes, o \in Stdouts, e \in Stderrs}

\* The three checks ahead of the command: the exception raised, or Running
\* when all pass (variant without the extension check first).
SignChecksNoSuffix(a) ==
    IF a.input_pdf \notin SignerFiles
    THEN Exc("PDFSignerError", <<Txt("Input PDF not found"), a.input_pdf>>)
    ELSE IF a.cert_path \notin SignerFiles
    THEN Exc("PDFSignerError", <<Txt("Certificate file not found"), a.cert_path>>)
    ELSE Running

SignChecks(a) ==
    IF a.input_pdf \notin SignerFiles
    THEN Exc("PDFSignerError", <<Txt("Input PDF not found"), a.input_pdf>>)
    ELSE IF a.cert_path \notin SignerFiles
    THEN Exc("PDFSignerError", <<Txt("Certificate file not found"), a.cert_path>>)
    ELSE IF ~(Lower(Suffix(a.cert_path)) = DotP12)
    THEN Exc("PDFSignerError",
             <<Txt("Certificate must be a .p12 file"), a.cert_path>>)
    ELSE Running

\* `if value: cmd.extend([flag, value])` (variant testing `is not None`
\* first).
OptionalIfNotNone(flag, v) == IF v # None THEN <<Txt(flag), Txt(v)>> ELSE <<>>

Optional(flag, v) == IF Truthy(v) THEN <<Txt(flag), Txt(v)>> ELSE <<>>

\* The argument list of sign_pdf.  Every element is a sequence: a literal or
\* a string argument is Txt of it, str(path) is the path.
SignCmd(a) ==
    <<Txt("pyhanko"), Txt("sign"), Txt("addsig"),
      Txt("--p12-file"), a.cert_path,
      Txt("--p12-password"), Txt(a.cert_password)>>
    \o Optional("--reason", a.reason)
    \o Optional("--location", a.location)
    \o Optional("--contact-info", a.contact_info)
    \o <<a.input_pdf, Txt("-o"), a.output_pdf>>

\* The check of validate_signature.
ValidateChecks(a) ==
    IF a.input_pdf \notin SignerFiles
    THEN Exc("PDFSignerError", <<Txt("PDF file not found"), a.input_pdf>>)
    ELSE Running

\* The argument list of validate_signature.
ValidateCmd(a) ==
    <<Txt("pyhanko"), Txt("sign"), Txt("validate"), a.input_pdf>>

\* str(e) of the CalledProcessError that check=True raises.
CalledProcessError(p) ==
    Exc("CalledProcessError",
        <<Txt("Command"), Txt("returned non-zero exit status")>>)

\* subprocess.run(cmd, capture_output=True, text=True, check=True) and the
\* two except clauses after it: how the call ends (variant without
\* check=True first).  A PermissionError is neither a CalledProcessError nor
\* a FileNotFoundError and leaves the call as it is.
RunOutcomeUnchecked(prefix, p) ==
    IF p.kind = "absent"
    THEN Exc("PDFSignerError",
             <<Txt("pyhanko command not found. Please ensure pyHanko is installed.")>>)
    ELSE IF p.kind = "denied"
    THEN Exc("PermissionError", <<Txt("Permission denied"), Txt("pyhanko")>>)
    ELSE Returned

RunOutcome(prefix, p) ==
    IF p.kind = "absent"
    THEN Exc("PDFSignerError",
             <<Txt("pyhanko command not found. Please ensure pyHanko is installed.")>>)
    ELSE IF p.kind = "denied"
    THEN Exc("PermissionError", <<Txt("Permission denied"), Txt("pyhanko")>>)
    ELSE IF p.code # 0
    THEN Exc("PDFSignerError",
             <<Txt(prefix)>>
             \o (IF p.stderr # "" THEN <<Txt(p.stderr)>>
                 ELSE Str(CalledProcessError(p))))
    ELSE Returned

\* str.strip on the outputs tried.
Strip(s) == IF s = "signature ok\n" THEN "signature ok" ELSE s

\* `return result.stdout` (variant returning it stripped first).
ValidateReturnStripped(p) == Strip(p.stdout)

ValidateReturn(p) == p.stdout

SignerInit ==
    /\ spc = "idle"
    /\ sop = "none"
    /\ sargs = NoArgs
    /\ cmd = <<>>
    /\ launched = <<>>
    /\ proc = NoProc
    /\ sign_result = Running
    /\ sign_return = None

\* sign_pdf(input_pdf, cert_path, cert_password, output_pdf, reason,
\* location, contact_info) is called.
SignCall ==
    /\ spc = "idle"
    /\ \E i \in InputPdfs, c \in CertPaths, w \in Passwords,
          r \in Reasons, l \in Locations, ci \in Contacts :
          sargs' = [input_pdf |-> i, cert_path |-> c, cert_password |-> w,
                    output_pdf |-> Po, reason |-> r, location |-> l,
                    contact_info |-> ci]
    /\ sop' = "sign_pdf"
    /\ spc' = "check"
    /\ UNCHANGED <<cmd, launched, proc, sign_result, sign_return>>
    /\ UNCHANGED exceptSigner

\* The checks of sign_pdf, then the command is built.
SignCheck ==
    /\ spc = "check"
    /\ sop = "sign_pdf"
    /\ IF SignChecks(sargs) = Running
       THEN /\ spc' = "run"
            /\ cmd' = SignCmd(sargs)
            /\ UNCHANGED sign_result
       ELSE /\ spc' = "done"
            /\ sign_result' = SignChecks(sargs)
            /\ UNCHANGED cmd
    /\ UNCHANGED <<sop, sargs, launched, proc, sign_return>>
    /\ UNCHANGED exceptSigner

\* subprocess.run(cmd, ...) of sign_pdf and what follows it.
SignRun ==
    /\ spc = "run"
    /\ sop = "sign_pdf"
    /\ \E p \in Procs :
          /\ proc' = p
          /\ sign_result' = RunOutcome("Failed to sign PDF: ", p)
    /\ launched' = Append(launched, cmd)
    /\ spc' = "done"
    /\ UNCHANGED <<sop, sargs, cmd, sign_return>>
    /\ UNCHANGED exceptSigner

\* validate_signature(pdf_path) is called.
ValidateCall ==
    /\ spc = "idle"
    /\ \E i \in InputPdfs : sargs' = [NoArgs EXCEPT !.input_pdf = i]
    /\ sop' = "validate_signature"
    /\ spc' = "check"
    /\ UNCHANGED <<cmd, launched, proc, sign_result, sign_return>>
    /\ UNCHANGED exceptSigner

\* The check of validate_signature, then the command is built.
ValidateCheck ==
    /\ spc = "check"
    /\ sop = "validate_signature"
    /\ IF ValidateChecks(sargs) = Running
       THEN /\ spc' = "run"
            /\ cmd' = ValidateCmd(sargs)
            /\ UNCHANGED sign_result
       ELSE /\ spc' = "done"
            /\ sign_result' = ValidateChecks(sargs)
            /\ UNCHANGED cmd
    /\ UNCHANGED <<sop, sargs, launched, proc, sign_return>>
    /\ UNCHANGED exceptSigner

\* subprocess.run(cmd, ...) of validate_signature and what follows it.
ValidateRun ==
    /\ spc = "run"
    /\ sop = "validate_signature"
    /\ \E p \in Procs :
          /\ proc' = p
          /\ sign_result' = RunOutcome("Signature validation failed: ", p)
          /\ sign_return' =
                IF RunOutcome("Signature validation failed: ", p) = Returned
                THEN ValidateReturn(p) ELSE None
    /\ launched' = Append(launched, cmd)
    /\ spc' = "done"
    /\ UNCHANGED <<sop, sargs, cmd>>
    /\ UNCHANGED exceptSigner

SignerNext ==
    \/ SignCall \/ SignCheck \/ SignRun
    \/ ValidateCall \/ ValidateCheck \/ ValidateRun

-----------------------------------------------------------------------------
(* The windows: PDFToolMainWindow (main_window.py) and UnifiedPDFEditor     *)
(* (unified_window.py) with its toolbar and viewer.  A run of the program   *)
(* shows one of them.  The wrappers a handler calls are taken by what they  *)
(* answer (a reply) and what they write.                                    *)

\* Longest page list of the unified window.
MaxUPages == 2

\* Most pending annotations of the unified window.
MaxPending == 1

\* What is on disk at a path the windows write: nothing, or a PDF and what
\* it is made of (stale: a file that was there before, merged, annotated,
\* copy: the file signed) and whether it carries a signature.
Absent == [there |-> FALSE, of |-> "", signed |-> FALSE]

Holding(of, sgn) == [there |-> TRUE, of |-> of, signed |-> sgn]

\* The paths the save dialog gives: one with nothing at it, one with a file
\* at it already.  A path on disk is the pair of a dialog path and what is
\* appended to it (`output_path + ".temp.pdf"`), nothing for the path itself.
OutPath == "out.pdf"

OldPath == "old.pdf"

At(p) == <<p, "">>

TempPath(p) == <<p, ".temp.pdf">>

AnnotatedPath(p) == <<p, ".annotated.pdf">>

SignedPath(p) == <<p, ".signed.pdf">>

GuiPaths ==
    {<<p, x>> : p \in {OutPath, OldPath},
                x \in {"", ".temp.pdf", ".annotated.pdf", ".signed.pdf"}}

\* QFileDialog.getSaveFileName: cancelled (the empty string) or a path.
SaveDialog == {"", OutPath, OldPath}

\* The source files added to the page list and their page counts; page k of
\* source s is the entry <<s, k>>, k counted from 0.
SrcX == "x.pdf"

SrcY == "y.pdf"

Sources == {SrcX, SrcY}

NPages(s) == IF s = SrcX THEN 2 ELSE 1

\* The position a click on the viewer reports; 0 stands for no
\* temp_click_pos attribute yet.
Positions == {1}

\* A clicked position: its coordinates; `on` is not part of it, it records
\* the page index shown when the click was made.
Click(pos, shown_page) == [at |-> pos, on |-> shown_page]

ToolTypes == {"select", "text", "highlight", "signature"}

\* What a handler did: the dialog result and the password it read, the
\* wrapper calls it made in order, the dialog it showed (none, warning,
\* critical, information), what it wrote to a status line (none, info,
\* success, error), the exception a call raised and whether that exception
\* left the handler.
Handled(handler, output_path, password, calls, dialog, status, raised, escaped) ==
    [handler |-> handler, output_path |-> output_path, password |-> password,
     calls |-> calls, dialog |-> dialog, status |-> status, raised |-> raised,
     escaped |-> escaped]

NoHandler == Handled("none", "", "", <<>>, "none", "none", "none", FALSE)

\* A handler that stopped ahead of its wrapper: a warning, or a cancelled
\* dialog.
Warned(handler, password) ==
    Handled(handler, "", password, <<>>, "warning", "none", "none", FALSE)

Cancelled(handler, password) ==
    Handled(handler, "", password, <<>>, "none", "none", "none", FALSE)

\* What the `except XError` clause of a handler makes of an exception raised
\* in its try block: the dialog and the status line, or the exception leaves
\* the handler.  with_status tells whether the clause writes a status label.
Caught(handler, output_path, password, calls, raised, catches, with_status) ==
    IF raised \in catches
    THEN Handled(handler, output_path, password, calls, "critical",
                 IF with_status THEN "error" ELSE "none", raised, FALSE)
    ELSE Handled(handler, output_path, password, calls, "none", "none", raised, TRUE)

\* The success branch of a handler.
Succeeded(handler, output_path, password, calls) ==
    Handled(handler, output_path, password, calls, "information", "success",
            "none", FALSE)

GuiInit ==
    /\ window = "none"
    /\ merge_file_list = 0
    /\ annotate_pdf_path = FALSE
    /\ sign_pdf_path = FALSE
    /\ main_cert_path = FALSE
    /\ page_list = <<>>
    /\ current_pdf_path = None
    /\ current_page_num = 0
    /\ annotations = <<>>
    /\ temp_click_pos = Click(0, 0)
    /\ add_text_btn = FALSE
    /\ current_tool = "select"
    /\ text_props_widget = TRUE
    /\ apply_btn = FALSE
    /\ cert_path_input = FALSE
    /\ viewer_pdf_path = None
    /\ viewer_doc = "none"
    /\ viewer_annotations = <<>>
    /\ gdisk = [p \in GuiPaths |->
                  IF p = At(OldPath) THEN Holding("stale", FALSE) ELSE Absent]
    /\ hlast = NoHandler

\* main(): one of the two windows is constructed and shown.
Launch ==
    /\ window = "none"
    /\ \E w \in {"main", "unified"} : window' = w
    /\ UNCHANGED <<mainVars, unifiedVars, hlast, gdisk>>
    /\ UNCHANGED exceptGui

\* The handler that called a wrapper, or stopped ahead of it, returns to the
\* event loop, which runs one handler at a time.
Return ==
    /\ hlast # NoHandler
    /\ hlast' = NoHandler
    /\ UNCHANGED <<window, gdisk, mainVars, unifiedVars>>
    /\ UNCHANGED exceptGui

-----------------------------------------------------------------------------
(* PDFToolMainWindow                                                       *)

\* A handler of the main window runs: what it did and the disk afterwards.
\* The handlers that call no wrapper leave hlast as it is.
MainStep(h, disk) ==
    /\ window = "main"
    /\ hlast = NoHandler
    /\ hlast' = h
    /\ gdisk' = disk
    /\ UNCHANGED <<window, unifiedVars>>
    /\ UNCHANGED exceptGui

\* The file dialog gave k files (none: nothing happens).
_add_merge_files ==
    /\ \E k \in 0..(MaxFiles - merge_file_list) :
          merge_file_list' = merge_file_list + k
    /\ MainStep(NoHandler, gdisk)
    /\ UNCHANGED <<annotate_pdf_path, sign_pdf_path, main_cert_path>>

\* The selected items are taken out of the list.
_remove_merge_files ==
    /\ \E k \in 0..merge_file_list : merge_file_list' = merge_file_list - k
    /\ MainStep(NoHandler, gdisk)
    /\ UNCHANGED <<annotate_pdf_path, sign_pdf_path, main_cert_path>>

_clear_merge_files ==
    /\ merge_file_list' = 0
    /\ MainStep(NoHandler, gdisk)
    /\ UNCHANGED <<annotate_pdf_path, sign_pdf_path, main_cert_path>>

\* `if self.merge_file_list.count() < 2`
MergeTabMissing(count) == count < 2

\* The body of _merge_pdfs.
MergeTab(count, output_path, reply, disk) ==
    IF MergeTabMissing(count)
    THEN [h |-> Warned("_merge_pdfs", ""),
          disk |-> disk]
    ELSE IF output_path = ""
    THEN [h |-> Cancelled("_merge_pdfs", ""),
          disk |-> disk]
    ELSE IF reply = "ok"
    THEN [h |-> Succeeded("_merge_pdfs", output_path, "", <<"merge_pdfs">>),
          disk |-> [disk EXCEPT ![At(output_path)] = Holding("merged", FALSE)]]
    ELSE [h |-> Caught("_merge_pdfs", output_path, "", <<"merge_pdfs">>, reply,
                       {"PDFMergerError"}, TRUE),
          disk |-> disk]

_merge_pdfs ==
    /\ \E output_path \in SaveDialog, reply \in {"ok", "PDFMergerError"} :
          LET r == MergeTab(merge_file_list, output_path, reply, gdisk)
          IN  MainStep(r.h, r.disk)
    /\ UNCHANGED <<merge_file_list, annotate_pdf_path, sign_pdf_path, main_cert_path>>

\* The file dialog gave a file (or none: nothing happens).
_select_annotate_pdf ==
    /\ \E chosen \in BOOLEAN : annotate_pdf_path' = (annotate_pdf_path \/ chosen)
    /\ MainStep(NoHandler, gdisk)
    /\ UNCHANGED <<merge_file_list, sign_pdf_path, main_cert_path>>

\* The body of _add_annotation.  fail_at tells which call of the with block
\* raises PDFAnnotatorError (none, open: the constructor, add, save); an
\* exception inside the block leaves it through __exit__, which closes.
AnnotateTab(selected, output_path, method, fail_at, disk) ==
    IF ~selected
    THEN [h |-> Warned("_add_annotation", ""),
          disk |-> disk]
    ELSE IF output_path = ""
    THEN [h |-> Cancelled("_add_annotation", ""),
          disk |-> disk]
    ELSE IF fail_at = "open"
    THEN [h |-> Caught("_add_annotation", output_path, "", <<"PDFAnnotator">>,
                       "PDFAnnotatorError", {"PDFAnnotatorError"}, TRUE),
          disk |-> disk]
    ELSE IF fail_at = "add"
    THEN [h |-> Caught("_add_annotation", output_path, "",
                       <<"PDFAnnotator", method, "close">>,
                       "PDFAnnotatorError", {"PDFAnnotatorError"}, TRUE),
          disk |-> disk]
    ELSE IF fail_at = "save"
    THEN [h |-> Caught("_add_annotation", output_path, "",
                       <<"PDFAnnotator", method, "save", "close">>,
                       "PDFAnnotatorError", {"PDFAnnotatorError"}, TRUE),
          disk |-> disk]
    ELSE [h |-> Succeeded("_add_annotation", output_path, "",
                          <<"PDFAnnotator", method, "save", "close">>),
          disk |-> [disk EXCEPT ![At(output_path)] = Holding("annotated", FALSE)]]

_add_annotation ==
    /\ \E output_path \in SaveDialog, method \in AddNames,
          fail_at \in {"none", "open", "add", "save"} :
          LET r == AnnotateTab(annotate_pdf_path, output_path, method, fail_at, gdisk)
          IN  MainStep(r.h, r.disk)
    /\ UNCHANGED <<merge_file_list, annotate_pdf_path, sign_pdf_path, main_cert_path>>

_select_sign_pdf ==
    /\ \E chosen \in BOOLEAN : sign_pdf_path' = (sign_pdf_path \/ chosen)
    /\ MainStep(NoHandler, gdisk)
    /\ UNCHANGED <<merge_file_list, annotate_pdf_path, main_cert_path>>

_select_certificate ==
    /\ \E chosen \in BOOLEAN : main_cert_path' = (main_cert_path \/ chosen)
    /\ MainStep(NoHandler, gdisk)
    /\ UNCHANGED <<merge_file_list, annotate_pdf_path, sign_pdf_path>>

\* The three `if not ...: warning; return` of _sign_pdf (variant without the
\* password check first).
SignTabMissingNoPassword(pdf_given, cert_given, password) ==
    ~pdf_given \/ ~cert_given

SignTabMissing(pdf_given, cert_given, password) ==
    ~pdf_given \/ ~cert_given \/ password = ""

\* The body of _sign_pdf.  The reply is what sign_pdf ends with: ok (the
\* tool wrote the output), PDFSignerError, or an exception sign_pdf does not
\* wrap.
SignTab(pdf_given, cert_given, password, output_path, reply, disk) ==
    IF SignTabMissing(pdf_given, cert_given, password)
    THEN [h |-> Warned("_sign_pdf", password),
          disk |-> disk]
    ELSE IF output_path = ""
    THEN [h |-> Cancelled("_sign_pdf", password),
          disk |-> disk]
    ELSE IF reply = "ok"
    THEN [h |-> Succeeded("_sign_pdf", output_path, password, <<"sign_pdf">>),
          disk |-> [disk EXCEPT ![At(output_path)] = Holding("copy", TRUE)]]
    ELSE [h |-> Caught("_sign_pdf", output_path, password, <<"sign_pdf">>, reply,
                       {"PDFSignerError"}, TRUE),
          disk |-> disk]

SignReplies == {"ok", "PDFSignerError", "PermissionError"}

_sign_pdf ==
    /\ \E password \in Passwords, output_path \in SaveDialog, reply \in SignReplies :
          LET r == SignTab(sign_pdf_path, main_cert_path, password, output_path,
                           reply, gdisk)
          IN  MainStep(r.h, r.disk)
    /\ UNCHANGED <<merge_file_list, annotate_pdf_path, sign_pdf_path, main_cert_path>>

\* The body of _validate_signature; chosen tells whether the open dialog
\* gave a file.
ValidateTab(chosen, reply) ==
    IF ~chosen
    THEN Cancelled("_validate_signature", "")
    ELSE IF reply = "ok"
    THEN Succeeded("_validate_signature", "", "", <<"validate_signature">>)
    ELSE Caught("_validate_signature", "", "", <<"validate_signature">>, reply,
                {"PDFSignerError"}, TRUE)

_validate_signature ==
    /\ \E chosen \in BOOLEAN, reply \in SignReplies :
          MainStep(ValidateTab(chosen, reply), gdisk)
    /\ UNCHANGED <<merge_file_list, annotate_pdf_path, sign_pdf_path, main_cert_path>>

MainNext ==
    \/ _add_merge_files \/ _remove_merge_files \/ _clear_merge_files
    \/ _merge_pdfs \/ _select_annotate_pdf \/ _add_annotation
    \/ _select_sign_pdf \/ _select_certificate \/ _sign_pdf
    \/ _validate_signature

-----------------------------------------------------------------------------
(* FullPDFViewer, as far as the unified window drives it                   *)

\* The truth value of self.doc: None is false, an open document (the sources
\* have pages) is true, and a closed one raises (its length is asked for).
ViewerTruth(d) ==
    IF d = "closed" THEN "raise" ELSE IF d = "open" THEN "true" ELSE "false"

\* load_page(pdf_path, page_num): the path and the handle afterwards.  Every
\* exception is caught inside load_page; opens tells whether fitz.open
\* succeeds.
LoadPage(vpath, vdoc, pdf_path, opens) ==
    IF vpath # pdf_path
    THEN IF ViewerTruth(vdoc) = "raise"
         THEN [pdf_path |-> vpath, doc |-> vdoc]
         ELSE IF opens
         THEN [pdf_path |-> pdf_path, doc |-> "open"]
         ELSE [pdf_path |-> vpath,
               doc |-> IF ViewerTruth(vdoc) = "true" THEN "closed" ELSE vdoc]
    ELSE [pdf_path |-> vpath, doc |-> vdoc]

\* _render_page starts with `if not self.doc` outside its try block.
RenderRaises(vdoc) == ViewerTruth(vdoc) = "raise"

\* close_document(): the path, the handle and the preview list afterwards,
\* and whether `if self.doc:` raised (nothing is reset then).
CloseDocument(vpath, vdoc, previews) ==
    IF ViewerTruth(vdoc) = "raise"
    THEN [pdf_path |-> vpath, doc |-> vdoc, annotations |-> previews, raised |-> TRUE]
    ELSE [pdf_path |-> None, doc |-> "none", annotations |-> <<>>, raised |-> FALSE]

-----------------------------------------------------------------------------
(* UnifiedPDFEditor                                                        *)

\* A pending AnnotationItem: its page_num and its position; made_on is not a
\* field of the item, it records current_pdf_path at the time of the Add.
\* (Variant that takes the page the click was made on first.)
ItemOnClickedPage(page_num, pos, shown) ==
    [page_num |-> pos.on, pos |-> pos, made_on |-> shown]

Item(page_num, pos, shown) ==
    [page_num |-> page_num, pos |-> pos, made_on |-> shown]

\* The dictionary handed to the viewer for an item.
Preview(a) == [type |-> "text", pos |-> a.pos]

Previews(items) == [i \in 1..Len(items) |-> Preview(items[i])]

\* The list comprehension of _on_page_selected (variant that also matches
\* the source file first).
PageAnnotationsBySource(items, pdf_path, page_num) ==
    Previews(SelectSeq(items,
                       LAMBDA a : a.page_num = page_num /\ a.made_on = pdf_path))

PageAnnotations(items, pdf_path, page_num) ==
    Previews(SelectSeq(items,
                       LAMBDA a : a.page_num = page_num /\ a.page_num = page_num))

\* VerticalPageList.add_pages_from_pdf: the entries of every page of s.
PagesOf(s) == [k \in 1..NPages(s) |-> <<s, k - 1>>]

\* The list without its entry at index i (counted from 1).
Without(pl, i) == SubSeq(pl, 1, i - 1) \o SubSeq(pl, i + 1, Len(pl))

\* A handler of the unified window that calls no wrapper runs.
UnifiedEdit ==
    /\ window = "unified"
    /\ hlast = NoHandler
    /\ UNCHANGED <<window, hlast, gdisk, mainVars>>
    /\ UNCHANGED exceptGui

\* The file dialog gave one file and the page list took its pages.  A file
\* is added while none of its pages is listed.
_add_pdf_files ==
    /\ UnifiedEdit
    /\ \E s \in Sources :
          /\ Len(page_list) + NPages(s) <= MaxUPages
          /\ \A k \in 1..Len(page_list) : page_list[k][1] # s
          /\ page_list' = page_list \o PagesOf(s)
    /\ UNCHANGED <<current_pdf_path, current_page_num, annotations, temp_click_pos,
                   add_text_btn, current_tool, text_props_widget, apply_btn, cert_path_input,
                   viewer_pdf_path, viewer_doc, viewer_annotations>>

\* The page list emits page_selected(pdf_path, page_num) for one of its
\* entries.  When the viewer cannot render, the exception leaves the handler
\* after the preview list was set.
_on_page_selected ==
    /\ UnifiedEdit
    /\ \E i \in 1..Len(page_list), opens \in BOOLEAN :
          LET pdf_path == page_list[i][1]
              page_num == page_list[i][2]
              v == LoadPage(viewer_pdf_path, viewer_doc, pdf_path, opens)
          IN  /\ current_pdf_path' = pdf_path
              /\ current_page_num' = page_num
              /\ viewer_pdf_path' = v.pdf_path
              /\ viewer_doc' = v.doc
              /\ viewer_annotations' = PageAnnotations(annotations, pdf_path, page_num)
    /\ UNCHANGED <<page_list, annotations, temp_click_pos, add_text_btn,
                   current_tool, text_props_widget, apply_btn, cert_path_input>>

\* self.annotations after _on_page_deleted for the entry that was dropped:
\* the handler only counts them ("Remove annotations for deleted page" is a
\* comment with no statement under it).  (Variant that removes them first.)
AfterPageDeletedPruned(items, entry) ==
    SelectSeq(items, LAMBDA a : a.page_num # entry[2])

AfterPageDeleted(items, entry) == items

\* The page list drops one of its entries and emits page_deleted(index).
_on_page_deleted ==
    /\ UnifiedEdit
    /\ \E i \in 1..Len(page_list) :
          LET remaining == Without(page_list, i)
              c == CloseDocument(viewer_pdf_path, viewer_doc, viewer_annotations)
          IN  /\ page_list' = remaining
              /\ annotations' = AfterPageDeleted(annotations, page_list[i])
              /\ IF Len(remaining) = 0
                 THEN /\ viewer_pdf_path' = c.pdf_path
                      /\ viewer_doc' = c.doc
                      /\ viewer_annotations' = c.annotations
                 ELSE UNCHANGED <<viewer_pdf_path, viewer_doc, viewer_annotations>>
    /\ UNCHANGED <<current_pdf_path, current_page_num, temp_click_pos,
                   add_text_btn, current_tool, text_props_widget, apply_btn, cert_path_input>>

\* The viewer, showing a page, reports a click at a position.
_on_pdf_click ==
    /\ UnifiedEdit
    /\ viewer_doc = "open"
    /\ \E pos \in Positions :
          IF current_tool = "text"
          THEN /\ add_text_btn' = TRUE
               /\ temp_click_pos' = Click(pos, current_page_num)
          ELSE UNCHANGED <<add_text_btn, temp_click_pos>>
    /\ UNCHANGED <<page_list, current_pdf_path, current_page_num, annotations,
                   current_tool, text_props_widget, apply_btn, cert_path_input,
                   viewer_pdf_path, viewer_doc, viewer_annotations>>

\* The tool buttons that can be clicked: highlight_btn is disabled.
EnabledTools == ToolTypes \ {"highlight"}

\* AnnotationToolbar._select_tool and the window's _on_tool_changed.
_on_tool_changed ==
    /\ UnifiedEdit
    /\ \E t \in EnabledTools :
          /\ current_tool' = t
          /\ text_props_widget' = (t = "text")
    /\ UNCHANGED <<page_list, current_pdf_path, current_page_num, annotations,
                   temp_click_pos, add_text_btn, apply_btn, cert_path_input,
                   viewer_pdf_path, viewer_doc, viewer_annotations>>

\* The body of _add_text_annotation: the pending list, the preview list and
\* the two buttons afterwards.  typed tells whether the text field holds
\* text; when the viewer cannot render, the exception leaves the handler
\* ahead of enable_apply_button(True).  (Variant that enables Apply ahead of
\* the two checks first.)
AddTextEnablesFirst(items, previews, typed, click, page_num, shown, vdoc, btns) ==
    IF ~typed \/ click.at = 0
    THEN [annotations |-> items, previews |-> previews,
          apply_btn |-> TRUE, add_text_btn |-> btns.add_text_btn]
    ELSE [annotations |-> Append(items, Item(page_num, click, shown)),
          previews |-> Append(previews, Preview(Item(page_num, click, shown))),
          apply_btn |-> TRUE,
          add_text_btn |-> IF RenderRaises(vdoc) THEN btns.add_text_btn ELSE FALSE]

AddText(items, previews, typed, click, page_num, shown, vdoc, btns) ==
    IF ~typed \/ click.at = 0
    THEN [annotations |-> items, previews |-> previews,
          apply_btn |-> btns.apply_btn, add_text_btn |-> btns.add_text_btn]
    ELSE [annotations |-> Append(items, Item(page_num, click, shown)),
          previews |-> Append(previews, Preview(Item(page_num, click, shown))),
          apply_btn |-> IF RenderRaises(vdoc) THEN btns.apply_btn ELSE TRUE,
          add_text_btn |-> IF RenderRaises(vdoc) THEN btns.add_text_btn ELSE FALSE]

\* The Add button (enabled, and shown with the text tool) is pressed.
_add_text_annotation ==
    /\ UnifiedEdit
    /\ add_text_btn
    /\ current_tool = "text"
    /\ Len(annotations) < MaxPending
    /\ \E typed \in BOOLEAN :
          LET r == AddText(annotations, viewer_annotations, typed, temp_click_pos,
                           current_page_num, current_pdf_path, viewer_doc,
                           [apply_btn |-> apply_btn, add_text_btn |-> add_text_btn])
          IN  /\ annotations' = r.annotations
              /\ viewer_annotations' = r.previews
              /\ apply_btn' = r.apply_btn
              /\ add_text_btn' = r.add_text_btn
    /\ UNCHANGED <<page_list, current_pdf_path, current_page_num, temp_click_pos,
                   current_tool, text_props_widget, cert_path_input,
                   viewer_pdf_path, viewer_doc>>

\* UnifiedPDFEditor._select_certificate, behind the Browse button of the
\* signature group, which is visible with the signature tool only.
_select_certificate_unified ==
    /\ UnifiedEdit
    /\ current_tool = "signature"
    /\ \E chosen \in BOOLEAN : cert_path_input' = (cert_path_input \/ chosen)
    /\ UNCHANGED <<page_list, current_pdf_path, current_page_num, annotations,
                   temp_click_pos, add_text_btn, current_tool, text_props_widget, apply_btn,
                   viewer_pdf_path, viewer_doc, viewer_annotations>>

\* Looking up a method on a PDFMerger or a PDFAnnotator: none when the class
\* defines it, AttributeError when it does not.
MergerAttribute(name) ==
    IF name = "merge_pdfs" THEN "none" ELSE "AttributeError"

AnnotatorAttribute(name) ==
    IF name \in AddNames \cup {"save", "close"} THEN "none" ELSE "AttributeError"

\* First stage of Apply: the file the next stage reads.
MergeStage(pl, output_path, disk) ==
    IF Len(pl) = 1
    THEN [calls |-> <<>>, raised |-> "none", disk |-> disk, temp |-> pl[1][1]]
    ELSE IF MergerAttribute("merge_pages") # "none"
    THEN [calls |-> <<"merge_pages">>, raised |-> MergerAttribute("merge_pages"),
          disk |-> disk, temp |-> "temp_pdf"]
    ELSE [calls |-> <<"merge_pages">>, raised |-> "none",
          disk |-> [disk EXCEPT ![TempPath(output_path)] = Holding("merged", FALSE)],
          temp |-> "temp_pdf"]

\* Second stage: the with block on PDFAnnotator(temp_pdf), then the move and
\* the unlink.  src_opens tells whether the source file can be opened.
AnnotateStage(s, pl, items, output_path, src_opens) ==
    IF Len(items) = 0 THEN s
    ELSE IF ~(IF s.temp \in Sources THEN src_opens
              ELSE s.disk[TempPath(output_path)].there)
    THEN [s EXCEPT !.calls = s.calls \o <<"PDFAnnotator">>,
                   !.raised = "PDFAnnotatorError"]
    ELSE IF AnnotatorAttribute("add_batch_annotations") # "none"
    THEN [s EXCEPT !.calls = s.calls \o <<"PDFAnnotator", "add_batch_annotations",
                                         "close">>,
                   !.raised = AnnotatorAttribute("add_batch_annotations")]
    ELSE [s EXCEPT !.calls = s.calls \o <<"PDFAnnotator", "add_batch_annotations",
                                         "save", "close">>,
                   !.disk = IF Len(pl) = 1
                            THEN [s.disk EXCEPT ![At(output_path)] =
                                                    Holding("annotated", FALSE)]
                            ELSE [s.disk EXCEPT ![At(output_path)] =
                                                    Holding("annotated", FALSE),
                                                ![AnnotatedPath(output_path)] = Absent,
                                                ![TempPath(output_path)] = Absent]]

\* `tool == SIGNATURE and cert_path_input.text() and
\* cert_password_input.text()`
SigningRequested(tool, cert_given, password) ==
    tool = "signature" /\ cert_given /\ password # ""

\* Third stage: sign_pdf(output_path, ..., signed_path), which needs its
\* input to exist, then the move of the signed file onto output_path.
SignStage(s, tool, cert_given, password, output_path, reply) ==
    IF ~SigningRequested(tool, cert_given, password) THEN s
    ELSE IF ~s.disk[At(output_path)].there
    THEN [s EXCEPT !.calls = s.calls \o <<"sign_pdf">>, !.raised = "PDFSignerError"]
    ELSE IF reply # "ok"
    THEN [s EXCEPT !.calls = s.calls \o <<"sign_pdf">>, !.raised = reply]
    ELSE [s EXCEPT !.calls = s.calls \o <<"sign_pdf">>,
                   !.disk = [s.disk EXCEPT
                                ![At(output_path)] =
                                    Holding(s.disk[At(output_path)].of, TRUE),
                                ![SignedPath(output_path)] = Absent]]

\* `if self.page_list.get_page_count() == 0`
ApplyMissing(pl) == Len(pl) = 0

\* The body of _apply_changes: what the handler did, the disk and the Apply
\* button afterwards.
ApplyBody(handler, pl, items, tool, cert_given, inp, disk, btn) ==
    LET password == inp.password
        output_path == inp.output_path
        src_opens == inp.src_opens
        reply == inp.reply
    IN
    IF ApplyMissing(pl)
    THEN [h |-> Warned(handler, password), disk |-> disk, apply_btn |-> btn]
    ELSE IF output_path = ""
    THEN [h |-> Cancelled(handler, password), disk |-> disk, apply_btn |-> btn]
    ELSE LET s1 == MergeStage(pl, output_path, disk)
             s2 == IF s1.raised = "none"
                   THEN AnnotateStage(s1, pl, items, output_path, src_opens) ELSE s1
             s3 == IF s2.raised = "none"
                   THEN SignStage(s2, tool, cert_given, password, output_path, reply)
                   ELSE s2
         IN  IF s3.raised = "none"
             THEN [h |-> Succeeded(handler, output_path, password, s3.calls),
                   disk |-> s3.disk, apply_btn |-> FALSE]
             ELSE [h |-> Caught(handler, output_path, password, s3.calls, s3.raised,
                                {"PDFMergerError", "PDFAnnotatorError", "PDFSignerError"},
                                FALSE),
                   disk |-> s3.disk, apply_btn |-> btn]

\* The inputs of one run of _apply_changes: the password field, the save
\* dialog, whether the source opens and what sign_pdf answers.  An input the
\* run does not read has one value, and the path with a file already at it
\* is given in the runs that reach sign_pdf, which read what is there.
ApplyInputs(pl, items, tool, cert_given) ==
    {i \in [password : Passwords, output_path : SaveDialog,
            src_opens : BOOLEAN, reply : SignReplies] :
        LET signs == /\ i.output_path # ""
                     /\ Len(pl) = 1
                     /\ Len(items) = 0
                     /\ SigningRequested(tool, cert_given, i.password)
        IN  /\ (Len(pl) = 0) => (i.output_path = "")
            /\ (tool # "signature" \/ ~cert_given) => (i.password = "")
            /\ (Len(pl) # 1 \/ Len(items) = 0 \/ i.output_path = "") => i.src_opens
            /\ ~signs => (i.reply = "ok" /\ i.output_path # OldPath)}

ApplyStep(handler) ==
    /\ window = "unified"
    /\ hlast = NoHandler
    /\ \E i \in ApplyInputs(page_list, annotations, current_tool, cert_path_input) :
          LET r == ApplyBody(handler, page_list, annotations, current_tool,
                             cert_path_input, i, gdisk, apply_btn)
          IN  /\ hlast' = r.h
              /\ gdisk' = r.disk
              /\ apply_btn' = r.apply_btn
    /\ UNCHANGED <<window, mainVars>>
    /\ UNCHANGED <<page_list, current_pdf_path, current_page_num, annotations,
                   temp_click_pos, add_text_btn, current_tool, text_props_widget, cert_path_input,
                   viewer_pdf_path, viewer_doc, viewer_annotations>>
    /\ UNCHANGED exceptGui

\* The Apply button of the toolbar is clicked: it emits apply_changes, which
\* runs _apply_changes.
_on_apply_changes ==
    /\ apply_btn
    /\ ApplyStep("_apply_changes")

\* The slot itself, as any emitter of toolbar.apply_changes reaches it.
_apply_changes ==
    /\ window = "unified"
    /\ ApplyStep("_apply_changes")

UnifiedNext ==
    \/ _add_pdf_files \/ _on_page_selected \/ _on_page_deleted
    \/ _on_pdf_click \/ _on_tool_changed \/ _add_text_annotation
    \/ _select_certificate_unified \/ _on_apply_changes \/ _apply_changes

GuiNext == Launch \/ Return \/ MainNext \/ UnifiedNext

-----------------------------------------------------------------------------
(* FullPDFViewer._render_page: the fit-to-window computation.  A factor is  *)
(* a fraction <<numerator, denominator>> with a positive denominator.       *)

\* `self.scroll_area.width() - 20`
Padding == 20

\* Sides of the scroll area and of a page that are tried.
ViewportSides == {0, 10, 20, 21, 70, 120, 620}

PageSides == {0, 100, 200}

\* a < b on factors.
Less(a, b) == a[1] * b[2] < b[1] * a[2]

\* Python's min(a, b) and max(a, b): the first argument unless the second
\* is smaller (larger).
PyMin(a, b) == IF Less(b, a) THEN b ELSE a

PyMax(a, b) == IF Less(a, b) THEN b ELSE a

\* `available / side if side > 0 else 1.5`
ZoomToFit(available, side) ==
    IF side > 0 THEN <<available, side>> ELSE <<3, 2>>

\* `max(0.5, min(3.0, zoom_factor))` (variant without the lower limit
\* first).
ClampNoFloor(zoom_factor) == PyMin(<<3, 1>>, zoom_factor)

Clamp(zoom_factor) == PyMax(<<1, 2>>, PyMin(<<3, 1>>, zoom_factor))

\* The zoom factor _render_page computes for a scroll area and a page.
ZoomFactor(area, rect) ==
    Clamp(PyMin(ZoomToFit(area[1] - Padding, rect[1]),
                ZoomToFit(area[2] - Padding, rect[2])))

RenderInit ==
    /\ scroll_area = <<0, 0>>
    /\ page_rect = <<0, 0>>
    /\ pixmap = "none"
    /\ current_zoom_factor = None

\* _render_page() on an open document: the scroll area has some size, the
\* page some rectangle, and get_pixmap and the conversion succeed or raise.
\* current_zoom_factor is stored after them, so a failed render leaves the
\* earlier pixmap and factor.
_render_page ==
    /\ \E w, h \in ViewportSides, pw, ph \in PageSides, ok \in BOOLEAN :
          /\ scroll_area' = <<w, h>>
          /\ page_rect' = <<pw, ph>>
          /\ IF ok
             THEN /\ pixmap' = "fresh"
                  /\ current_zoom_factor' = ZoomFactor(<<w, h>>, <<pw, ph>>)
             ELSE /\ pixmap' = IF pixmap = "none" THEN "none" ELSE "stale"
                  /\ UNCHANGED current_zoom_factor
    /\ UNCHANGED exceptRender

RenderNext == _render_page

-----------------------------------------------------------------------------
(* Specifications                                                          *)

Init ==
    /\ MergerInit
    /\ FunctionInit
    /\ AnnotatorInit
    /\ SignerInit
    /\ GuiInit
    /\ RenderInit

SpecMerger == Init /\ [][MergerNext]_vars

SpecAnnotator == Init /\ [][AnnotatorNext]_vars

SpecSigner == Init /\ [][SignerNext]_vars

SpecGui == Init /\ [][GuiNext]_vars

SpecRender == Init /\ [][RenderNext]_vars

-----------------------------------------------------------------------------
(* Properties of merge_pdfs.  The faults of a source are stated here from   *)
(* the disk, independently of the code's own tests.                         *)

MergeDone == mpc = "done"

MergeFailed == MergeDone /\ merge_result.type = "PDFMergerError"

\* The name ends in .pdf, in any mix of cases, after a non-empty stem.
IsPdfName(p) ==
    /\ Len(p) >= 5
    /\ p[Len(p) - 3] = "."
    /\ p[Len(p) - 2] \in {"p", "P"}
    /\ p[Len(p) - 1] \in {"d", "D"}
    /\ p[Len(p)] \in {"f", "F"}

Fault(p) ==
    IF ~Disk[p].exists THEN "missing"
    ELSE IF ~IsPdfName(p) THEN "notpdf"
    ELSE IF Disk[p].open # "ok" THEN "unopenable"
    ELSE "none"

Faulty(files) == {i \in 1..Len(files) : Fault(files[i]) # "none"}

Min(S) == CHOOSE x \in S : \A y \in S : x <= y

\* The first faulty path of the list, in list order.
FirstFaulty(files) == files[Min(Faulty(files))]

RECURSIVE ConcatPages(_)
ConcatPages(files) ==
    IF files = <<>> THEN <<>>
    ELSE Pages(Head(files)) \o ConcatPages(Tail(files))

RECURSIVE SumPages(_)
SumPages(files) ==
    IF files = <<>> THEN 0
    ELSE Disk[Head(files)].npages + SumPages(Tail(files))

\* C1: merging N >= 2 existing, openable .pdf sources (to a destination that
\* can be written) returns normally and leaves at the destination the
\* concatenation of the sources' pages in list order, p1+...+pN pages, a
\* source listed twice contributing its pages twice.
C1_MergeConcatenates ==
    (MergeDone /\ Len(input_files) >= 2 /\ Faulty(input_files) = {}
               /\ dest_writable)
    => /\ merge_result = Returned
       /\ dest = File(ConcatPages(input_files))
       /\ Len(dest.pages) = SumPages(input_files)

\* A merge of a.pdf, b.PDF, a.pdf has returned: five pages, a.pdf's twice.
C1_Witness ==
    /\ MergeDone
    /\ input_files = <<Pa, PB, Pa>>
    /\ merge_result = Returned
    /\ Len(dest.pages) = 5

\* C2: an empty list fails with 'No input files', a single source with
\* 'At least 2 PDF files'; no source is examined or opened and nothing is
\* written, at any point of the call.
C2_TooFewFiles ==
    (mpc # "idle" /\ Len(input_files) < 2)
    => /\ examined = <<>> /\ opened = <<>> /\ dest = NoFile
       /\ mpc \in {"check", "done"}
       /\ MergeDone =>
            /\ merge_result.type = "PDFMergerError"
            /\ Len(input_files) = 0 =>
                 merge_result.msg = <<Txt("No input files provided")>>
            /\ Len(input_files) = 1 =>
                 merge_result.msg =
                     <<Txt("At least 2 PDF files are required for merging")>>

\* A call with the single, valid source a.pdf has failed.
C2_Witness ==
    /\ MergeDone
    /\ input_files = <<Pa>>
    /\ merge_result.type = "PDFMergerError"

\* C3 as stated: any missing path in a list of two or more gives a
\* PDFMergerError saying 'File not found', and no output file.
C3_AnyMissingSaysNotFound ==
    (MergeDone /\ Len(input_files) >= 2
               /\ \E i \in 1..Len(input_files) : ~Disk[input_files[i]].exists)
    => /\ merge_result.type = "PDFMergerError"
       /\ Says(merge_result, "File not found")
       /\ dest = NoFile

\* C3, amended: a list of two or more paths with a missing path fails with a
\* PDFMergerError and leaves no output file; the message is that of the
\* first faulty path in list order: 'File not found', naming it, exactly
\* when that path is the missing one.
C3_FirstMissingSaysNotFound ==
    (MergeDone /\ Len(input_files) >= 2
               /\ \E i \in 1..Len(input_files) : ~Disk[input_files[i]].exists)
    => /\ merge_result.type = "PDFMergerError"
       /\ dest = NoFile
       /\ Says(merge_result, "File not found")
            <=> Fault(FirstFaulty(input_files)) = "missing"
       /\ Says(merge_result, "File not found")
            => Names(merge_result, FirstFaulty(input_files))

\* A merge of a.pdf then the missing d.pdf has failed with 'File not found'.
C3_Witness ==
    /\ MergeDone
    /\ input_files = <<Pa, Pd>>
    /\ Says(merge_result, "File not found")
    /\ dest = NoFile

\* C4 as stated: any path without a .pdf extension (in any case) in a list
\* of two or more gives a PDFMergerError saying 'Not a PDF file'.
C4_AnyNonPdfSaysNotPdf ==
    (MergeDone /\ Len(input_files) >= 2
               /\ \E i \in 1..Len(input_files) : ~IsPdfName(input_files[i]))
    => /\ merge_result.type = "PDFMergerError"
       /\ Says(merge_result, "Not a PDF file")

\* C4, amended: a list of two or more paths with a path that lacks a .pdf
\* extension (compared case-insensitively) fails with a PDFMergerError; the
\* message is that of the first faulty path in list order: 'Not a PDF file',
\* naming it, exactly when that path exists and lacks the extension.
C4_FirstNonPdfSaysNotPdf ==
    (MergeDone /\ Len(input_files) >= 2
               /\ \E i \in 1..Len(input_files) : ~IsPdfName(input_files[i]))
    => /\ merge_result.type = "PDFMergerError"
       /\ Says(merge_result, "Not a PDF file")
            <=> Fault(FirstFaulty(input_files)) = "notpdf"
       /\ Says(merge_result, "Not a PDF file")
            => Names(merge_result, FirstFaulty(input_files))

\* A merge of b.PDF then e.txt has failed with 'Not a PDF file' on e.txt.
C4_Witness ==
    /\ MergeDone
    /\ input_files = <<PB, Pe>>
    /\ Says(merge_result, "Not a PDF file")
    /\ Names(merge_result, Pe)

\* C5: a call that fails on a precondition (fewer than two sources, a
\* missing source, a source without .pdf extension) has opened no source.
C5_FailsBeforeAnyOpen ==
    (MergeDone /\ \/ Len(input_files) < 2
                  \/ Says(merge_result, "File not found")
                  \/ Says(merge_result, "Not a PDF file"))
    => opened = <<>>

\* C6: once Pdf.open has failed on a source, at any position, the call ends
\* in a PDFMergerError and the destination is never written; the destination
\* is written only after every source, in order, was examined, opened and
\* appended.
C6_OpenFailureAborts ==
    /\ (\E i \in 1..Len(opened) : Disk[opened[i]].open # "ok")
       => /\ MergeFailed
          /\ dest = NoFile
    /\ dest # NoFile
       => /\ examined = input_files
          /\ opened = input_files
          /\ \A i \in 1..Len(input_files) : Disk[input_files[i]].open = "ok"
          /\ pdf = ConcatPages(input_files)

\* The third source, c.pdf, could not be opened after two that could.
C6_Witness ==
    /\ MergeDone
    /\ opened = <<Pa, PB, Pc>>
    /\ merge_result.type = "PDFMergerError"
    /\ dest = NoFile

\* The result of merging `files` to a destination that is writable or not,
\* stated from the faults of the sources: whether the call returns, and the
\* text its error opens with otherwise.
ExpectedText(files, w) ==
    IF Len(files) = 0 THEN "No input files provided"
    ELSE IF Len(files) < 2 THEN "At least 2 PDF files are required for merging"
    ELSE IF Faulty(files) = {}
    THEN (IF w THEN "" ELSE "cannot write")
    ELSE CASE Fault(FirstFaulty(files)) = "missing" -> "File not found"
           [] Fault(FirstFaulty(files)) = "notpdf" -> "Not a PDF file"
           [] Disk[FirstFaulty(files)].open = "PdfError" -> "Failed to open"
           [] OTHER -> "cannot read"

\* `result` and `disk` are what ExpectedText tells for these arguments.
AsExpected(result, disk, files, w) ==
    IF ExpectedText(files, w) = ""
    THEN result = Returned /\ disk = File(ConcatPages(files))
    ELSE /\ result.type = "PDFMergerError"
         /\ Says(result, ExpectedText(files, w))
         /\ disk = NoFile

\* C21: the module-level merge_pdfs ends as PDFMerger.merge_pdfs does on the
\* same arguments: the method runs on the very arguments the function was
\* given, what leaves the method leaves the function, and either way of
\* calling ends with the error or the output file the arguments determine.
C21_FunctionAsMethod ==
    /\ (fpc # "idle")
         => /\ input_files = fargs.input_files
            /\ dest_writable = fargs.dest_writable
    /\ (fpc = "done")
         => /\ fresult = merge_result
            /\ AsExpected(fresult, dest, fargs.input_files, fargs.dest_writable)
    /\ (fpc = "idle" /\ MergeDone)
         => AsExpected(merge_result, dest, input_files, dest_writable)

\* merge_pdfs([], "output.pdf") has raised the method's 'No input files'.
C21_Witness ==
    /\ fpc = "done"
    /\ fargs.input_files = <<>>
    /\ fresult = Exc("PDFMergerError", <<Txt("No input files provided")>>)

\* C24: the sources are examined strictly in list order, each for existence
\* before extension, and the call stops at the first offending one: nothing
\* after it is examined or opened, and the error is its error, 'File not
\* found' rather than 'Not a PDF file' for a path that neither exists nor
\* ends in .pdf.
C24_FirstOffenderInOrder ==
    /\ examined = SubSeq(input_files, 1, Len(examined))
    /\ opened = SubSeq(input_files, 1, Len(opened))
    /\ Len(opened) <= Len(examined)
    /\ Faulty(examined) # {}
         => /\ MergeFailed
            /\ Len(examined) = Min(Faulty(input_files))
            /\ Len(opened) \in {Len(examined) - 1, Len(examined)}
            /\ Names(merge_result, FirstFaulty(input_files))
            /\ ~Disk[FirstFaulty(input_files)].exists
                 => /\ Says(merge_result, "File not found")
                    /\ ~Says(merge_result, "Not a PDF file")
                    /\ Len(opened) = Len(examined) - 1
            /\ (Disk[FirstFaulty(input_files)].exists
                  /\ ~IsPdfName(FirstFaulty(input_files)))
                 => /\ Says(merge_result, "Not a PDF file")
                    /\ Len(opened) = Len(examined) - 1

\* A merge of a.pdf, f.txt (not on disk) and e.txt has stopped at f.txt with
\* 'File not found'; e.txt was not looked at.
C24_Witness ==
    /\ MergeDone
    /\ input_files = <<Pa, Pf, Pe>>
    /\ examined = <<Pa, Pf>>
    /\ opened = <<Pa>>
    /\ Says(merge_result, "File not found")
    /\ Names(merge_result, Pf)

-----------------------------------------------------------------------------
(* Properties of PDFAnnotator.  Every call records itself in `last`, so a  *)
(* step into a state with last.op = m is a call of m.                      *)

\* C7: a call of any of the seven add_* methods with a page index outside
\* [0, page_count) fails with PDFAnnotatorError and leaves the document, the
\* handle and the files on disk as they were; on an open document the error
\* says 'Invalid page number'.
C7_BadPageLeavesDocument ==
    [][(last'.op \in AddNames
           /\ (last'.page_num < 0 \/ last'.page_num >= Len(doc)))
       => /\ ann_result'.type = "PDFAnnotatorError"
          /\ doc' = doc
          /\ handle' = handle
          /\ saved' = saved
          /\ handle = "open" => Says(ann_result', "Invalid page number")]_vars

\* add_freehand_text(-1, ...) on an open two-page document has failed.
C7_Witness ==
    /\ last.op = "add_freehand_text"
    /\ last.page_num = -1
    /\ handle = "open"
    /\ Len(doc) = 2
    /\ ann_result.type = "PDFAnnotatorError"
    /\ Says(ann_result, "Invalid page number")

\* C8: once a with block on the annotator has been left, normally or by an
\* exception of a call inside it, the document handle is closed.
C8_HandleReleasedOnExit ==
    scope = "left" => handle = "closed"

\* C9: the handle is released exactly once: never a second time, and not
\* zero times once close or __exit__ has run.
C9_ReleasedExactlyOnce ==
    /\ released <= 1
    /\ close_ran => released = 1

\* C10: a call of save leaves the in-memory document and the handle as they
\* were, so the session stays open; on an open document, unless the library
\* call raises, it returns normally and the given path (and no other) then
\* holds the whole document, with every annotation added so far; a save that
\* raises writes nothing.
C10_SaveLeavesSessionOpen ==
    [][last'.op = "save"
       => /\ doc' = doc
          /\ handle' = handle
          /\ released' = released
          /\ (handle = "open" /\ ~last'.fails)
               => /\ ann_result' = Returned
                  /\ saved' = [saved EXCEPT ![last'.path] = File(doc)]
          /\ ann_result' # Returned => saved' = saved]_vars

\* Two saves with an add between them: out1.pdf holds the document before
\* the annotation, out2.pdf the document with it, and the session is open.
C10_Witness ==
    /\ last.op = "save"
    /\ last.path = "out2.pdf"
    /\ ann_result = Returned
    /\ handle = "open"
    /\ saved["out1.pdf"].there
    /\ saved["out2.pdf"] = File(doc)
    /\ CountAnnots(saved["out1.pdf"].pages) = 0
    /\ CountAnnots(doc) = 1

\* An add_* call failed on a page number out of range (the document was
\* open when it ran).
AddFailed ==
    /\ ann_result.type = "PDFAnnotatorError"
    /\ Len(ann_result.msg) >= 2
    /\ \E m \in AddNames : ann_result.msg[1] = Txt(AddMethods[m].prefix)
    /\ ann_result.msg[2] = Txt("Invalid page number")

\* C30: in a with block on the annotator (open, add, save, close), a failed
\* add_* call is followed by no save, so nothing is written, and once the
\* block is left the document is closed.
C30_FailedAddClosesUnsaved ==
    /\ (scope = "unwind" /\ AddFailed) => last.op \in AddNames
    /\ (scope = "left" /\ last.op = "__exit__" /\ AddFailed)
         => /\ handle = "closed"
            /\ released = 1

-----------------------------------------------------------------------------
(* Properties of PDFSigner.  Which calls are valid is stated here from the  *)
(* files that exist and the spelling of the certificate's name.             *)

SignDone == spc = "done" /\ sop = "sign_pdf"

ValidateDone == spc = "done" /\ sop = "validate_signature"

\* The name ends in .p12, in any mix of cases, after a non-empty stem.
IsP12Name(p) ==
    /\ Len(p) >= 5
    /\ p[Len(p) - 3] = "."
    /\ p[Len(p) - 2] \in {"p", "P"}
    /\ p[Len(p) - 1] = "1"
    /\ p[Len(p)] = "2"

SignFault(a) ==
    \/ a.input_pdf \notin SignerFiles
    \/ a.cert_path \notin SignerFiles
    \/ ~IsP12Name(a.cert_path)

\* C11: a call of sign_pdf whose input PDF is missing, whose certificate
\* file is missing, or whose certificate is not named .p12 never reaches
\* subprocess.run: no command is launched at any point of the call, and the
\* call ends with PDFSignerError.
C11_NoSubprocessOnBadInput ==
    (sop = "sign_pdf" /\ SignFault(sargs))
       => /\ launched = <<>>
          /\ proc = NoProc
          /\ spc # "run"
          /\ spc = "done" => sign_result.type = "PDFSignerError"

\* sign_pdf on an existing PDF with an existing certificate named n.pem has
\* failed.
C11_Witness ==
    /\ SignDone
    /\ sargs.input_pdf = Pa
    /\ sargs.cert_path = Cn
    /\ sign_result.type = "PDFSignerError"
    /\ Says(sign_result, "Certificate must be a .p12 file")

\* A value that is given and not the empty string.
NonEmpty(v) == v # None /\ v # ""

\* Where the flag stands in the command c, between the password and the
\* input path.
FlagAt(c, flag) == {i \in 8..(Len(c) - 3) : c[i] = Txt(flag)}

\* The flag is in c once, followed by the value, when the value is non-empty,
\* and not in it otherwise.
FlagIff(c, flag, v) ==
    IF NonEmpty(v)
    THEN /\ Cardinality(FlagAt(c, flag)) = 1
         /\ \A i \in FlagAt(c, flag) : c[i + 1] = Txt(v)
    ELSE FlagAt(c, flag) = {}

\* Every place of flag f is before every place of flag g.
FlagBefore(c, f, g) ==
    \A i \in FlagAt(c, f), j \in FlagAt(c, g) : i < j

OptFlags(a) ==
    {f \in {"reason", "location", "contact_info"} : NonEmpty(a[f])}

\* C12: a valid call of sign_pdf runs exactly one command: pyhanko sign
\* addsig, then --p12-file and the certificate path, then --p12-password and
\* the password as given, then each of --reason, --location, --contact-info
\* with its value if and only if that value is non-empty, in that order, and
\* last the input path, -o and the output path.
C12_CommandLayout ==
    (SignDone /\ ~SignFault(sargs))
       => /\ Len(launched) = 1
          /\ LET c == launched[1]
                 n == Len(c)
             IN  /\ n = 10 + 2 * Cardinality(OptFlags(sargs))
                 /\ c[1] = Txt("pyhanko")
                 /\ c[2] = Txt("sign")
                 /\ c[3] = Txt("addsig")
                 /\ c[4] = Txt("--p12-file")
                 /\ c[5] = sargs.cert_path
                 /\ c[6] = Txt("--p12-password")
                 /\ c[7] = Txt(sargs.cert_password)
                 /\ FlagIff(c, "--reason", sargs.reason)
                 /\ FlagIff(c, "--location", sargs.location)
                 /\ FlagIff(c, "--contact-info", sargs.contact_info)
                 /\ FlagBefore(c, "--reason", "--location")
                 /\ FlagBefore(c, "--reason", "--contact-info")
                 /\ FlagBefore(c, "--location", "--contact-info")
                 /\ c[n - 2] = sargs.input_pdf
                 /\ c[n - 1] = Txt("-o")
                 /\ c[n] = sargs.output_pdf

\* sign_pdf with an empty password, an empty reason, no location and a
\* contact has run its command, with the certificate K.P12.
C12_Witness ==
    /\ SignDone
    /\ Len(launched) = 1
    /\ sargs.cert_path = CK
    /\ sargs.cert_password = ""
    /\ sargs.reason = ""
    /\ sargs.location = None
    /\ sargs.contact_info = "me"

\* C13: in sign_pdf and in validate_signature alike, a signer tool that is
\* not installed gives PDFSignerError saying so, a non-zero exit gives
\* PDFSignerError carrying the captured standard error, and exit code zero
\* gives a normal return.
C13_OutcomeMapping ==
    spc = "done"
       => /\ proc.kind = "absent"
               => /\ sign_result.type = "PDFSignerError"
                  /\ Says(sign_result,
                          "pyhanko command not found. Please ensure pyHanko is installed.")
          /\ (proc.kind = "exit" /\ proc.code # 0)
               => /\ sign_result.type = "PDFSignerError"
                  /\ proc.stderr # "" => Says(sign_result, proc.stderr)
          /\ (proc.kind = "exit" /\ proc.code = 0)
               => sign_result = Returned

\* validate_signature has met exit code 2 with text on standard error.
C13_Witness ==
    /\ ValidateDone
    /\ proc.kind = "exit"
    /\ proc.code = 2
    /\ proc.stderr = "bad password"
    /\ sign_result.type = "PDFSignerError"
    /\ Says(sign_result, "bad password")

\* C14: validate_signature on an existing file runs exactly pyhanko sign
\* validate <file>, and on exit code zero returns the captured standard
\* output as it is; on a path that does not exist it fails with
\* PDFSignerError and launches nothing.
C14_ValidateReturnsStdout ==
    ValidateDone
       => IF sargs.input_pdf \in SignerFiles
          THEN /\ launched = <<<<Txt("pyhanko"), Txt("sign"), Txt("validate"),
                                sargs.input_pdf>>>>
               /\ (proc.kind = "exit" /\ proc.code = 0)
                    => /\ sign_result = Returned
                       /\ sign_return = proc.stdout
          ELSE /\ sign_result.type = "PDFSignerError"
               /\ launched = <<>>
               /\ proc = NoProc

\* validate_signature has returned an output that ends in a newline.
C14_Witness ==
    /\ ValidateDone
    /\ proc.kind = "exit"
    /\ proc.code = 0
    /\ proc.stdout = "signature ok\n"
    /\ sign_return = "signature ok\n"

-----------------------------------------------------------------------------
(* Properties of the three wrappers together.                              *)

\* C15: nothing but the wrapper's own error type leaves a wrapper call:
\* PDFMergerError from merge_pdfs, PDFAnnotatorError from the constructor,
\* the add_* methods, save and close, PDFSignerError from sign_pdf and
\* validate_signature.
C15_OnlyWrapperErrors ==
    /\ merge_result.type \in {"Running", "Returned", "PDFMergerError"}
    /\ ann_result.type \in {"Returned", "PDFAnnotatorError"}
    /\ sign_result.type \in {"Running", "Returned", "PDFSignerError"}

-----------------------------------------------------------------------------
(* Properties of the windows.  hlast describes the handler that has just    *)
(* run; the fields and lists it read are as it found them.                  *)

AppliedNow == hlast.handler = "_apply_changes"

\* Signing was asked for in the run of Apply that hlast describes.
SignAsked ==
    current_tool = "signature" /\ cert_path_input /\ hlast.password # ""

\* C16: Apply on two or more pages with at least one pending annotation,
\* once an output path is chosen, calls merge, then annotate, then sign when
\* signing was asked for, reports success, and the output path holds the
\* final document.
C16_ApplyRunsPipeline ==
    (AppliedNow /\ hlast.output_path # ""
        /\ Len(page_list) >= 2 /\ Len(annotations) >= 1)
       => /\ hlast.calls =
                <<"merge_pages", "PDFAnnotator", "add_batch_annotations", "save",
                  "close">>
                \o (IF SignAsked THEN <<"sign_pdf">> ELSE <<>>)
          /\ hlast.dialog = "information"
          /\ gdisk[At(hlast.output_path)].there
          /\ gdisk[At(hlast.output_path)].of = "annotated"

\* C17: whenever Apply reports success, the output path holds the document
\* this run produced (signed exactly when signing was asked for) and none of
\* <output>.temp.pdf, <output>.annotated.pdf, <output>.signed.pdf is on disk.
C17_SuccessLeavesOnlyOutput ==
    (AppliedNow /\ hlast.dialog = "information")
       => /\ gdisk[At(hlast.output_path)].there
          /\ gdisk[At(hlast.output_path)].of \in {"merged", "annotated", "copy"}
          /\ gdisk[At(hlast.output_path)].signed = SignAsked
          /\ gdisk[TempPath(hlast.output_path)] = Absent
          /\ gdisk[AnnotatedPath(hlast.output_path)] = Absent
          /\ gdisk[SignedPath(hlast.output_path)] = Absent

\* The places in the pending list of the annotations with page index k.
WithIndex(items, k) == {i \in 1..Len(items) : items[i].page_num = k}

\* C18: a selection that changes the current page makes the preview list
\* the pending annotations whose page index is the selected index, in
\* insertion order, whatever the source file of the selected page and
\* whatever page was shown when they were added.
C18_PreviewByPageIndex ==
    [][(current_pdf_path' # current_pdf_path
           \/ current_page_num' # current_page_num)
       => LET idx == WithIndex(annotations', current_page_num')
          IN  /\ Len(viewer_annotations') = Cardinality(idx)
              /\ \A i \in idx :
                    viewer_annotations'[Cardinality({j \in idx : j <= i})]
                       = [type |-> "text", pos |-> annotations'[i].pos]]_vars

\* Page 0 of y.pdf is selected and previews an annotation added while page 0
\* of x.pdf was shown; both pages are in the list.
C18_Witness ==
    /\ current_pdf_path = SrcY
    /\ current_page_num = 0
    /\ page_list = <<<<SrcX, 0>>, <<SrcY, 0>>>>
    /\ Len(annotations) = 1
    /\ annotations[1].made_on = SrcX
    /\ annotations[1].page_num = 0
    /\ viewer_annotations = <<[type |-> "text", pos |-> annotations[1].pos]>>

\* C19: a handler whose wrapper call failed has shown a critical dialog and
\* written the error to a status line, the exception has not left it, and it
\* has not called the wrapper a second time.
C19_FailureShownAndNoted ==
    (hlast.raised # "none")
       => /\ hlast.dialog = "critical"
          /\ hlast.status = "error"
          /\ ~hlast.escaped
          /\ \A i, j \in 1..Len(hlast.calls) :
                (hlast.calls[i] = hlast.calls[j]) => (i = j)

\* What each handler needs before its wrapper, from the fields of its window
\* and the password hlast' says it read.
Present(handler, password) ==
    CASE handler = "_merge_pdfs" -> merge_file_list >= 2
      [] handler = "_add_annotation" -> annotate_pdf_path
      [] handler = "_sign_pdf" ->
            sign_pdf_path /\ main_cert_path /\ password # ""
      [] handler = "_apply_changes" -> Len(page_list) >= 1

\* C20: the merge tab, the annotate tab, the sign tab and unified Apply call
\* a wrapper only when what they need is present and the save dialog gave a
\* path; when something is missing or the dialog is cancelled they call no
\* wrapper and the disk stays as it was.
C20_WrapperOnlyAfterChecks ==
    [][(hlast' # hlast
          /\ hlast'.handler \in {"_merge_pdfs", "_add_annotation", "_sign_pdf",
                                 "_apply_changes"})
       => /\ (hlast'.calls # <<>>)
               => (Present(hlast'.handler, hlast'.password)
                     /\ hlast'.output_path # "")
          /\ (~Present(hlast'.handler, hlast'.password)
                \/ hlast'.output_path = "")
               => (hlast'.calls = <<>> /\ gdisk' = gdisk)]_vars

\* The sign tab, with a PDF and a certificate chosen and an empty password,
\* has warned and called nothing.
C20_Witness ==
    /\ hlast.handler = "_sign_pdf"
    /\ sign_pdf_path
    /\ main_cert_path
    /\ hlast.password = ""
    /\ hlast.dialog = "warning"
    /\ hlast.calls = <<>>

-----------------------------------------------------------------------------
(* Properties of the viewer's render.                                      *)

\* The fit factor of one side, as a fraction: available over side, 3/2 for
\* a side of zero.
Fit(available, side) == IF side > 0 THEN <<available, side>> ELSE <<3, 2>>

\* Fractions compared by cross-multiplication.
AtMost(a, b) == a[1] * b[2] <= b[1] * a[2]

Same(a, b) == a[1] * b[2] = b[1] * a[2]

\* C22: when a render has succeeded, the stored zoom factor lies in
\* [0.5, 3.0] and is the smaller of the fit-to-width and fit-to-height
\* factors of that render, raised to 0.5 or lowered to 3.0 when outside.
C22_ZoomClamped ==
    /\ (current_zoom_factor # None)
         => /\ AtMost(<<1, 2>>, current_zoom_factor)
            /\ AtMost(current_zoom_factor, <<3, 1>>)
    /\ (pixmap = "fresh")
         => \E m \in {Fit(scroll_area[1] - Padding, page_rect[1]),
                      Fit(scroll_area[2] - Padding, page_rect[2])} :
               /\ AtMost(m, Fit(scroll_area[1] - Padding, page_rect[1]))
               /\ AtMost(m, Fit(scroll_area[2] - Padding, page_rect[2]))
               /\ AtMost(m, <<1, 2>>) => Same(current_zoom_factor, <<1, 2>>)
               /\ AtMost(<<3, 1>>, m) => Same(current_zoom_factor, <<3, 1>>)
               /\ (AtMost(<<1, 2>>, m) /\ AtMost(m, <<3, 1>>))
                    => Same(current_zoom_factor, m)

\* A page of zero height was rendered in a scroll area narrower than the
\* padding: the factor stored is 0.5.
C22_Witness ==
    /\ pixmap = "fresh"
    /\ scroll_area = <<10, 120>>
    /\ page_rect = <<100, 0>>
    /\ current_zoom_factor = <<1, 2>>

-----------------------------------------------------------------------------
(* Properties of the toolbar, the viewer and the pending annotations.      *)

\* C23: in the unified window the font size and colour controls of the
\* toolbar are shown only while the current tool is the text tool.
C23_TextPropsOnlyWithTextTool ==
    (window = "unified" /\ text_props_widget) => current_tool = "text"

\* C28: the viewer's pdf_path is None exactly when its doc is None, and a
\* pdf_path that is set goes with an open document.
C28_PathIffOpenDoc ==
    /\ (viewer_pdf_path = None) <=> (viewer_doc = "none")
    /\ (viewer_pdf_path # None) => (viewer_doc = "open")

C26_ApplyEnabledOnlyWithPending ==
    /\ ~apply_btn
    /\ [][/\ apply_btn' => Len(annotations') >= 1
          /\ (apply_btn' /\ ~apply_btn)
               => Len(annotations') = Len(annotations) + 1
          /\ (~apply_btn' /\ apply_btn)
               => /\ hlast'.handler = "_apply_changes"
                  /\ hlast'.status = "success"
          /\ (apply_btn /\ hlast = NoHandler /\ hlast'.handler = "_apply_changes")
               => Len(annotations) >= 1]_vars

\* The enabled button was pressed with an annotation pending, and the run
\* went as far as the annotator.
C26_Witness ==
    /\ window = "unified"
    /\ apply_btn
    /\ Len(annotations) >= 1
    /\ hlast.handler = "_apply_changes"
    /\ hlast.output_path # ""
    /\ hlast.raised = "AttributeError"

\* C27: the step that adds an annotation records it with the page index
\* current at that step and with the position of the latest click.
C27_AddTakesCurrentPageAndLastClick ==
    [][Len(annotations') = Len(annotations) + 1
         => /\ annotations'[Len(annotations')].page_num = current_page_num
            /\ annotations'[Len(annotations')].pos = temp_click_pos]_vars

\* The click was made while page index 0 was shown, page index 1 was
\* selected before Add: the annotation has page index 1 and the position
\* clicked on page 0.
C27_Witness ==
    /\ window = "unified"
    /\ \E k \in 1..Len(annotations) :
          /\ annotations[k].pos.on = 0
          /\ annotations[k].page_num = 1
          /\ annotations[k].pos.at \in Positions

\* C29: in the unified window the viewer's preview list is, in insertion
\* order, the previews of the pending annotations whose page index is the
\* current page index.
C29_PreviewsOfCurrentIndex ==
    (window = "unified")
      => viewer_annotations
           = Previews(SelectSeq(annotations,
                                LAMBDA a : a.page_num = current_page_num))

====
